---- MODULE Spec2Model ----
(***************************************************************************)
(* MoneyManager: the spreadsheet-backed record store (file_io/excel_loader) *)
(* and the session lifecycle that wraps it (managers/session_manager).      *)
(*                                                                          *)
(* Spec      the session orchestrator over a small filesystem               *)
(* GridSpec  the adapter's month/day/slot grid of one open workbook         *)
(* AdapterSpec  every adapter write, save and read on one open workbook,    *)
(*           blank template or imported legacy workbook                     *)
(* TemplateSpec  the same calls on a copy of the blank template             *)
(* AnalyticsSpec  the analytic manager's totals over session files          *)
(* ChecksSpec  the path validators and the guards of adapter and session    *)
(* LoaderSpec  one adapter object: open, close, write, save, prepare        *)
(* DialogSpec  batches queued in the transaction dialog or given to         *)
(*           SessionManager.write_all, written to the session file          *)
(* PureSpec  pure functions applied to inputs drawn by Init                 *)
(* CalendarSpec  get_days_in_month on every month spelling and year         *)
(***************************************************************************)
EXTENDS Integers, Sequences, FiniteSets, TLC

(***************************************************************************)
(* Bounds of the model                                                      *)
(***************************************************************************)
\* largest numeric suffix an archive name may get before the model stops archiving
MaxBackupN == 4
\* number of files the backups directory may hold before the model stops archiving
MaxBackups == 3
\* number of timestamped copies save_backup may write before the model stops copying
MaxCopies == 1

VARIABLES
    state,      \* SessionManager._state: [session_path, mode]
    storage,    \* the file at template/file_storage/user_data.xlsx
    backups,    \* template/file_storage/backups: archive name -> file
    copies,     \* number of timestamped copies written by save_backup
    template,   \* the file at template/templateFile.xlsx
    last,       \* the last SessionManager call: its inputs and its outcome
    ws,         \* ExcelLoader._ws: the open worksheet, <<row, column>> -> cell value
    glast,      \* the last ExcelLoader call: its inputs and whether it raised
    disk,       \* the workbook file the open worksheet was loaded from: its cells
    pf,         \* a pure function's inputs and, once applied, its result
    loader,     \* one ExcelLoader object: its _wb (the loaded content) and its _path
    fs,         \* the files the ExcelLoader object is used on: path -> file
    working_set \* TransactionScene._working_set: (month, day, slot) -> queued entry

smVars == <<state, storage, backups, copies, template, last>>
gridVars == <<ws, glast, disk>>
pfVars == <<pf>>
ldVars == <<loader, fs>>
uiVars == <<working_set>>
vars == <<smVars, gridVars, pfVars, ldVars, uiVars>>

(***************************************************************************)
(* Files.  A file is absent, or holds bytes that openpyxl can load or not;  *)
(* a loadable workbook has the marker in A1 (sig) or not, and its other     *)
(* cells are summarised by a data tag: those of the blank template, or      *)
(* records of the user's.                                                   *)
(***************************************************************************)
DataTags == {"blank", "user"}
NoFile == [exists |-> FALSE, loadable |-> FALSE, sig |-> FALSE, data |-> "blank"]
Workbook(sig, data) == [exists |-> TRUE, loadable |-> TRUE, sig |-> sig, data |-> data]
Garbage == [exists |-> TRUE, loadable |-> FALSE, sig |-> FALSE, data |-> "blank"]

None == "None"
\* SessionManager.USER_DATA_FILE under STORAGE_DIR: the only session path there is
UserDataPath == "file_storage/user_data.xlsx"

\* SessionState(): both fields None
SessionState == [session_path |-> None, mode |-> None]

\* An archive name User_Data_<label>_<n>.xlsx; NoName stands for "no path returned"
BackupName(label, n) == [label |-> label, n |-> n]
NoName == [label |-> "", n |-> 0]

World == [state |-> state, storage |-> storage, backups |-> backups, copies |-> copies]

\* the outcome of a call: whether it raised, the world it leaves, what it returned,
\* whether it wrote (saved) the backing file, and whether the ExcelLoader it
\* opened was left open (close() not reached)
Outcome(raised, w, ret, saved) ==
    [raised |-> raised, w |-> w, ret |-> ret, saved |-> saved, open |-> FALSE]

\* the call ends with its loader open
LeftOpen(out) == [out EXCEPT !.open = TRUE]

(***************************************************************************)
(* Upload sources offered to start_imported_session.  "self" is the         *)
(* session's own backing file picked as the upload.                         *)
(***************************************************************************)
Sources == {"good", "missing", "wrong_ext", "unreadable", "too_big", "not_workbook", "bad_sig", "self"}

SourceFile(src, w) ==
    CASE src = "good"         -> Workbook(TRUE, "user")
      [] src = "missing"      -> NoFile
      [] src = "wrong_ext"    -> Workbook(TRUE, "user")
      [] src = "unreadable"   -> Workbook(TRUE, "user")
      [] src = "too_big"      -> Workbook(TRUE, "user")
      [] src = "not_workbook" -> Garbage
      [] src = "bad_sig"      -> Workbook(FALSE, "user")
      [] src = "self"         -> w.storage

(***************************************************************************)
(* utils/validator.py                                                       *)
(***************************************************************************)
\* validate_fresh_session_paths: template exists and is .xlsx; the storage
\* directory is created if missing and is writable
validate_fresh_session_paths(tpl) == tpl.exists

\* validate_user_upload_path: exists, .xlsx, readable
validate_user_upload_path(src, w) ==
    /\ SourceFile(src, w).exists
    /\ src # "wrong_ext"
    /\ src # "unreadable"

\* validate_upload_filesize: stat() raises FileNotFoundError on a missing file,
\* ValidationError above the limit
validate_upload_filesize(src, w) ==
    /\ SourceFile(src, w).exists
    /\ src # "too_big"

\* validate_template_signature: load, compare A1, save back; any exception and a
\* marker mismatch both raise
validate_template_signature(src, w) ==
    /\ SourceFile(src, w).loadable
    /\ SourceFile(src, w).sig

(***************************************************************************)
(* managers/session_manager.py                                              *)
(***************************************************************************)
is_session_active(w) == w.state.session_path # None /\ w.storage.exists

MaxOf(S) == IF S = {} THEN 0 ELSE CHOOSE m \in S : \A x \in S : x <= m

\* a naming that takes the first free suffix
unique_backup_name_reuse_gaps(bk, label) ==
    BackupName(label, CHOOSE n \in 1..(Cardinality(DOMAIN bk) + 1) :
                          /\ BackupName(label, n) \notin DOMAIN bk
                          /\ \A k \in 1..(n - 1) : BackupName(label, k) \in DOMAIN bk)

unique_backup_name_count(bk, label) ==
    BackupName(label, Cardinality({x \in DOMAIN bk : x.label = label}) + 1)

\* unique_backup_name: highest suffix among the names of this prefix, plus one
unique_backup_name(bk, label) ==
    BackupName(label, MaxOf({nm.n : nm \in {x \in DOMAIN bk : x.label = label}}) + 1)

\* shutil.move(user_data, dst): os.rename replaces dst
MoveToBackups(w, name) ==
    [w EXCEPT !.storage = NoFile,
              !.backups = (name :> w.storage) @@ w.backups]

\* archive_current_user_data: moveOk is whether shutil.move succeeds
archive_current_user_data(w, label, moveOk) ==
    IF ~w.storage.exists THEN Outcome(TRUE, w, NoName, FALSE)
    ELSE LET archived_path == unique_backup_name(w.backups, label) IN
         IF ~moveOk THEN Outcome(TRUE, w, NoName, FALSE)
         ELSE Outcome(FALSE, MoveToBackups(w, archived_path), archived_path, FALSE)

\* an archive step whose fallback swallows a failed move and lets the start go on
archive_if_stale_exists_swallow(w, label, moveOk1, moveOk2) ==
    IF ~w.storage.exists THEN Outcome(FALSE, w, NoName, FALSE)
    ELSE LET a == archive_current_user_data(w, label, moveOk1) IN
         IF ~a.raised
         THEN Outcome(FALSE, [a.w EXCEPT !.state = SessionState], NoName, FALSE)
         ELSE LET fallback == unique_backup_name(w.backups, label) IN
              IF ~moveOk2 THEN Outcome(FALSE, w, NoName, FALSE)
              ELSE Outcome(FALSE, MoveToBackups(w, fallback), NoName, FALSE)

\* archive_if_stale_exists: try the archive and reset the state; on any exception
\* move under a fresh unique name (an exception there propagates)
archive_if_stale_exists(w, label, moveOk1, moveOk2) ==
    IF ~w.storage.exists THEN Outcome(FALSE, w, NoName, FALSE)
    ELSE LET a == archive_current_user_data(w, label, moveOk1) IN
         IF ~a.raised
         THEN Outcome(FALSE, [a.w EXCEPT !.state = SessionState], NoName, FALSE)
         ELSE LET fallback == unique_backup_name(w.backups, label) IN
              IF ~moveOk2 THEN Outcome(TRUE, w, NoName, FALSE)
              ELSE Outcome(FALSE, MoveToBackups(w, fallback), NoName, FALSE)

\* ExcelLoader.prepare_fresh_session: copy the template over user_data.xlsx, open
\* it, verify it; on a failed verification close, unlink the copy and raise
prepare_fresh_session(w, tpl) ==
    IF ~validate_fresh_session_paths(tpl) THEN Outcome(TRUE, w, NoName, FALSE)
    ELSE LET copied == [w EXCEPT !.storage = tpl] IN
         IF ~tpl.loadable THEN Outcome(TRUE, copied, NoName, FALSE)
         ELSE IF ~tpl.sig THEN Outcome(TRUE, [copied EXCEPT !.storage = NoFile], NoName, FALSE)
         ELSE Outcome(FALSE, copied, NoName, FALSE)

\* ExcelLoader.import_into_session on the loader prepare_fresh_session opened:
\* size guard, upload checks, save the open workbook, copy the source over the
\* session file, reopen; when it raises, start_imported_session does not reach
\* loader.close()
import_into_session(w, src) ==
    IF ~validate_upload_filesize(src, w) THEN LeftOpen(Outcome(TRUE, w, NoName, FALSE))
    ELSE IF ~validate_user_upload_path(src, w) THEN LeftOpen(Outcome(TRUE, w, NoName, FALSE))
    ELSE IF ~validate_template_signature(src, w) THEN LeftOpen(Outcome(TRUE, w, NoName, FALSE))
    \* shutil.copy2 of a file onto itself raises SameFileError, after self.save()
    ELSE IF src = "self" THEN LeftOpen(Outcome(TRUE, w, NoName, TRUE))
    ELSE Outcome(FALSE, [w EXCEPT !.storage = SourceFile(src, w)], NoName, TRUE)

\* a start that sets the path and forgets the mode
ActiveState_path_only(mode) == [session_path |-> UserDataPath, mode |-> None]

\* the state a successful start sets: session_path, then mode
ActiveState(mode) == [session_path |-> UserDataPath, mode |-> mode]

start_fresh_session(w, tpl, moveOk1, moveOk2) ==
    IF ~validate_fresh_session_paths(tpl) THEN Outcome(TRUE, w, NoName, FALSE)
    ELSE LET a == archive_if_stale_exists(w, "Stale", moveOk1, moveOk2) IN
         IF a.raised THEN a
         ELSE LET p == prepare_fresh_session(a.w, tpl) IN
              IF p.raised THEN p
              ELSE Outcome(FALSE, [p.w EXCEPT !.state = ActiveState("FRESH")], NoName, FALSE)

\* a start that archives the stale session before it validates the upload
start_imported_session_archive_first(w, tpl, src, moveOk1, moveOk2) ==
    IF ~validate_fresh_session_paths(tpl) THEN Outcome(TRUE, w, NoName, FALSE)
    ELSE LET a == archive_if_stale_exists(w, "Stale", moveOk1, moveOk2) IN
         IF a.raised THEN a
         ELSE IF ~validate_user_upload_path(src, a.w) THEN Outcome(TRUE, a.w, NoName, FALSE)
         ELSE IF ~validate_upload_filesize(src, a.w) THEN Outcome(TRUE, a.w, NoName, FALSE)
         ELSE IF ~validate_template_signature(src, a.w) THEN Outcome(TRUE, a.w, NoName, FALSE)
         ELSE LET p == prepare_fresh_session(a.w, tpl) IN
              IF p.raised THEN p
              ELSE LET i == import_into_session(p.w, src) IN
                   IF i.raised THEN i
                   ELSE Outcome(FALSE, [i.w EXCEPT !.state = ActiveState("IMPORTED")], NoName, TRUE)

start_imported_session(w, tpl, src, moveOk1, moveOk2) ==
    IF ~validate_fresh_session_paths(tpl) THEN Outcome(TRUE, w, NoName, FALSE)
    ELSE IF ~validate_user_upload_path(src, w) THEN Outcome(TRUE, w, NoName, FALSE)
    ELSE IF ~validate_upload_filesize(src, w) THEN Outcome(TRUE, w, NoName, FALSE)
    ELSE IF ~validate_template_signature(src, w) THEN Outcome(TRUE, w, NoName, FALSE)
    ELSE LET a == archive_if_stale_exists(w, "Stale", moveOk1, moveOk2) IN
         IF a.raised THEN a
         ELSE LET p == prepare_fresh_session(a.w, tpl) IN
              IF p.raised THEN p
              ELSE LET i == import_into_session(p.w, src) IN
                   IF i.raised THEN i
                   ELSE Outcome(FALSE, [i.w EXCEPT !.state = ActiveState("IMPORTED")], NoName, TRUE)

ArchiveLabel(mode) ==
    IF mode = "FRESH" THEN "Fresh" ELSE IF mode = "IMPORTED" THEN "Imported" ELSE "Prev"

\* an end that archives whatever is at the storage path, active session or not
end_session_and_archive_no_guard(w, moveOk) ==
    LET a == archive_current_user_data(w, ArchiveLabel(w.state.mode), moveOk) IN
    IF a.raised THEN a
    ELSE Outcome(FALSE, [a.w EXCEPT !.state = SessionState], a.ret, FALSE)

\* an end that archives and leaves the session state as it was
end_session_and_archive_no_reset(w, moveOk) ==
    IF ~is_session_active(w) THEN Outcome(FALSE, w, NoName, FALSE)
    ELSE archive_current_user_data(w, ArchiveLabel(w.state.mode), moveOk)

end_session_and_archive(w, moveOk) ==
    IF ~is_session_active(w) THEN Outcome(FALSE, w, NoName, FALSE)
    ELSE LET a == archive_current_user_data(w, ArchiveLabel(w.state.mode), moveOk) IN
         IF a.raised THEN a
         ELSE Outcome(FALSE, [a.w EXCEPT !.state = SessionState], a.ret, FALSE)

\* ExcelLoader.open on the session path: validate_open_excel_path, then load_workbook
open_session_file(w) == w.storage.exists /\ w.storage.loadable

\* ExcelLoader.verify_template on the opened session file
verify_template(w) == w.storage.sig

\* SessionManager.read_all
read_all(w) ==
    IF ~is_session_active(w) THEN Outcome(TRUE, w, NoName, FALSE)
    ELSE IF ~open_session_file(w) THEN Outcome(TRUE, w, NoName, FALSE)
    ELSE IF ~verify_template(w) THEN Outcome(TRUE, w, NoName, FALSE)
    ELSE Outcome(FALSE, w, NoName, FALSE)

\* SessionManager.write_all: dataOk is whether ExcelLoader.write_all accepts every
\* entry of the data; d is the content the workbook has after the writes
write_all(w, dataOk, d) ==
    IF ~is_session_active(w) THEN Outcome(TRUE, w, NoName, FALSE)
    ELSE IF ~open_session_file(w) THEN Outcome(TRUE, w, NoName, FALSE)
    ELSE IF ~verify_template(w) THEN Outcome(TRUE, w, NoName, FALSE)
    \* loader.write_all raises: loader.save() and loader.close() are not reached
    ELSE IF ~dataOk THEN LeftOpen(Outcome(TRUE, w, NoName, FALSE))
    ELSE Outcome(FALSE, [w EXCEPT !.storage.data = d], NoName, TRUE)

\* SessionManager.save: open, save, close
save(w) ==
    IF ~is_session_active(w) THEN Outcome(TRUE, w, NoName, FALSE)
    ELSE IF ~open_session_file(w) THEN Outcome(TRUE, w, NoName, FALSE)
    ELSE Outcome(FALSE, w, NoName, TRUE)

\* SessionManager.save_backup: dirOk is whether validate_backup_directory accepts
\* the directory; ExcelLoader.save_backup saves, then copies the file to
\* <stem>_backup_<timestamp>.xlsx
save_backup(w, dirOk) ==
    IF ~is_session_active(w) THEN Outcome(TRUE, w, NoName, FALSE)
    ELSE IF ~dirOk THEN Outcome(TRUE, w, NoName, FALSE)
    ELSE IF ~open_session_file(w) THEN Outcome(TRUE, w, NoName, FALSE)
    ELSE Outcome(FALSE, [w EXCEPT !.copies = @ + 1], NoName, TRUE)

(***************************************************************************)
(* The session orchestrator as a state machine                              *)
(***************************************************************************)
Templates == {Workbook(TRUE, "blank"), Workbook(FALSE, "blank"), Garbage, NoFile}

\* backups left by earlier runs
InitialBackups ==
    { (BackupName("Fresh", 1) :> Workbook(TRUE, "blank")) @@ (BackupName("Fresh", 3) :> Workbook(TRUE, "user")),
      (BackupName("Stale", 2) :> Workbook(TRUE, "blank")) }

\* what is kept of a call: the operation and its upload source, whether a session
\* was active and whether a backing file existed when it began, and its outcome
Record(op, src, w, out) ==
    [op |-> op, src |-> src, active |-> is_session_active(w), stale |-> w.storage.exists,
     raised |-> out.raised, ret |-> out.ret, saved |-> out.saved, open |-> out.open]

\* the model stops archiving at its bounds
WithinBounds(w) ==
    /\ Cardinality(DOMAIN w.backups) <= MaxBackups
    /\ \A nm \in DOMAIN w.backups : nm.n <= MaxBackupN
    /\ w.copies <= MaxCopies

Apply(op, src, out) ==
    /\ WithinBounds(out.w)
    /\ state' = out.w.state
    /\ storage' = out.w.storage
    /\ backups' = out.w.backups
    /\ copies' = out.w.copies
    /\ last' = Record(op, src, World, out)
    /\ UNCHANGED template
    /\ UNCHANGED <<gridVars, pfVars, ldVars, uiVars>>

\* the parts of the model a specification does not exercise stay as they are
SmIdle ==
    /\ state = SessionState /\ storage = NoFile /\ backups = <<>> /\ copies = 0
    /\ template = NoFile /\ last = <<>>
GridIdle == ws = <<>> /\ glast = <<>> /\ disk = <<>>
PfIdle == pf = <<>>
LdIdle == loader = <<>> /\ fs = <<>>
UiIdle == working_set = <<>>

SmInit ==
    /\ GridIdle /\ PfIdle /\ LdIdle /\ UiIdle
    /\ state = SessionState
    /\ storage \in {NoFile, Workbook(TRUE, "user")}
    /\ backups \in InitialBackups
    /\ copies = 0
    /\ template \in Templates
    /\ last = Record("init", "", World, Outcome(FALSE, World, NoName, FALSE))

\* whether shutil.move succeeds, at the first attempt and at the fallback's; a
\* move is attempted only when a backing file exists
MoveOutcomes ==
    IF storage.exists THEN {<<TRUE, TRUE>>, <<FALSE, TRUE>>, <<FALSE, FALSE>>} ELSE {<<TRUE, TRUE>>}

StartFresh ==
    \E m \in MoveOutcomes :
        Apply("start_fresh_session", "", start_fresh_session(World, template, m[1], m[2]))

StartImported ==
    \E src \in Sources : \E m \in MoveOutcomes :
        Apply("start_imported_session", src, start_imported_session(World, template, src, m[1], m[2]))

EndSession ==
    \E m \in {mo[1] : mo \in MoveOutcomes} :
        Apply("end_session_and_archive", "", end_session_and_archive(World, m))

ReadAll == Apply("read_all", "", read_all(World))

WriteAll ==
    \E dataOk \in BOOLEAN : \E d \in DataTags :
        Apply("write_all", "", write_all(World, dataOk, d))

Save == Apply("save", "", save(World))

SaveBackup ==
    \E dirOk \in BOOLEAN : Apply("save_backup", "", save_backup(World, dirOk))

\* the backing file is corrupted or replaced from outside the program
ExternalCorrupt ==
    /\ storage.exists /\ storage.sig
    /\ storage' = [storage EXCEPT !.sig = FALSE]
    /\ last' = Record("external", "", World, Outcome(FALSE, World, NoName, FALSE))
    /\ UNCHANGED <<state, backups, copies, template>>
    /\ UNCHANGED <<gridVars, pfVars, ldVars, uiVars>>

SmNext ==
    \/ StartFresh
    \/ StartImported
    \/ EndSession
    \/ ReadAll
    \/ WriteAll
    \/ Save
    \/ SaveBackup
    \/ ExternalCorrupt

Spec == SmInit /\ [][SmNext]_vars

(***************************************************************************)
(* file_io/excel_loader.py: the worksheet grid                              *)
(***************************************************************************)
\* bounds of the grid model
\* number of day/slot rows that may hold a written entry before the model stops writing to new rows
MaxRows == 2
\* largest number a text cell is parsed to (int(float(s)) of "0".."MaxCellInt")
MaxCellInt == 40

\* cell values: blank (None), a string, a number
Blank == [k |-> "blank", s |-> "", n |-> 0]
Str(s) == [k |-> "str", s |-> s, n |-> 0]
Num(n) == [k |-> "num", s |-> "", n |-> n]

\* str.strip() and str.upper() on the strings of the model
Strip(s) ==
    CASE s = " february " -> "february"
      [] s = " food "     -> "food"
      [] s = " lunch "    -> "lunch"
      [] s = "  "         -> ""
      [] OTHER            -> s

Upper(s) ==
    CASE s = "february" -> "FEBRUARY"
      [] s = "food"     -> "FOOD"
      [] s = "income"   -> "INCOME"
      [] s = "expense"  -> "EXPENSE"
      [] s = "none"     -> "NONE"
      [] s = "lunch"    -> "LUNCH"
      [] s = "mm_tmu"   -> "MM_TMU"
      [] OTHER          -> s

TEMPLATE_MARKER_CELL == <<1, 1>>
TEMPLATE_MARKER_VALUE == "MM_TMU"
\* an income cell that lies on the signature cell
CURRENT_INCOME_CELL_on_marker == <<1, 1>>
CURRENT_INCOME_CELL == <<5, 3>>
YEAR_CELL == <<6, 2>>

\* anchors whose February block begins inside January's
MONTH_ANCHOR_ROW_february_early ==
    [JANUARY |-> 8, FEBRUARY |-> 68, MARCH |-> 132, APRIL |-> 196,
     MAY |-> 258, JUNE |-> 322, JULY |-> 384, AUGUST |-> 448,
     SEPTEMBER |-> 512, OCTOBER |-> 574, NOVEMBER |-> 638, DECEMBER |-> 700]

MONTH_ANCHOR_ROW ==
    [JANUARY |-> 8, FEBRUARY |-> 72, MARCH |-> 132, APRIL |-> 196,
     MAY |-> 258, JUNE |-> 322, JULY |-> 384, AUGUST |-> 448,
     SEPTEMBER |-> 512, OCTOBER |-> 574, NOVEMBER |-> 638, DECEMBER |-> 700]

COL == [DATE |-> 1, DAY |-> 3, CATEGORY |-> 4, AMOUNT |-> 9, TYPE |-> 10, DESCRIPTION |-> 11]

VALID_TYPES == {"EXPENSE", "INCOME", "NONE"}

months_in_order ==
    <<"JANUARY", "FEBRUARY", "MARCH", "APRIL", "MAY", "JUNE",
      "JULY", "AUGUST", "SEPTEMBER", "OCTOBER", "NOVEMBER", "DECEMBER">>

MonthKeys == {months_in_order[i] : i \in 1..12}

month_to_number(month_key) == CHOOSE i \in 1..12 : months_in_order[i] = month_key

\* a leap rule without the century exceptions
is_leap_year_every_fourth(year) == year % 4 = 0

\* GeneralHelper.is_leap_year
is_leap_year(year) == (year % 4 = 0 /\ year % 100 # 0) \/ (year % 400 = 0)

\* GeneralHelper.get_days_in_month, on a month key
get_days_in_month(month, year) ==
    IF month = "FEBRUARY" /\ is_leap_year(year) THEN 29
    ELSE CASE month \in {"APRIL", "JUNE", "SEPTEMBER", "NOVEMBER"} -> 30
           [] month = "FEBRUARY" -> 28
           [] OTHER -> 31

\* ws.cell(row, column).value: a cell never written is blank
CellValue(sheet, row, col) ==
    IF <<row, col>> \in DOMAIN sheet THEN sheet[<<row, col>>] ELSE Blank

SetCell(sheet, row, col, v) == (<<row, col>> :> v) @@ sheet

\* str(value)
PyStr(v) == IF v.k = "num" THEN ToString(v.n) ELSE IF v.k = "str" THEN v.s ELSE "None"

safe_cell_str(sheet, row, col) ==
    LET val == CellValue(sheet, row, col) IN IF val.k = "blank" THEN "" ELSE PyStr(val)

\* float(s) of a text: the decimal numerals and what "$" / "," stripping leaves
ParsesAsNumber(s) == \E n \in 0..MaxCellInt : ToString(n) = s
ParsedNumber(s) == CHOOSE n \in 0..MaxCellInt : ToString(n) = s

\* to_float: blank and unparsable give 0.0; "$" and "," are dropped first
to_float(raw) ==
    IF raw.k = "blank" THEN 0
    ELSE IF raw.k = "num" THEN raw.n
    ELSE LET t == Strip(raw.s)
             u == CASE t = "$12" -> "12" [] t = "1,0" -> "10" [] OTHER -> t
         IN IF ParsesAsNumber(u) THEN ParsedNumber(u) ELSE 0

\* to_int raises: int(float("inf")) is an OverflowError, which to_int does not catch
to_int_raises(s) == Strip(s) \in {"inf", "-inf", "1e999"}

\* to_int on a text: int(float(s)), 0 when it does not parse
to_int(s) ==
    IF Strip(s) = "" THEN 0
    ELSE IF ParsesAsNumber(Strip(s)) THEN ParsedNumber(Strip(s)) ELSE 0

\* get_year raises: float(None) is a TypeError, float of a text that is no
\* number a ValueError
get_year_raises(sheet) ==
    LET raw == CellValue(sheet, YEAR_CELL[1], YEAR_CELL[2]) IN
    \/ raw.k = "blank"
    \/ (raw.k = "str" /\ ~ParsesAsNumber(Strip(raw.s)))

\* get_year: int(float(raw)) of the year cell
get_year(sheet) ==
    LET raw == CellValue(sheet, YEAR_CELL[1], YEAR_CELL[2]) IN
    IF raw.k = "num" THEN raw.n
    ELSE IF raw.k = "str" /\ ParsesAsNumber(Strip(raw.s)) THEN ParsedNumber(Strip(raw.s))
    ELSE 0

\* dates: the text YYYY-MM-DD, written here as its three numbers
Date(y, m, d) == [y |-> y, m |-> m, d |-> d]
NoDate == Date(0, 0, 0)

\* date_to_string: f"{year:04d}-{month_num:02d}-{day_number:02d}"
date_to_string(year, month_key, day_number) == Date(year, month_to_number(month_key), day_number)

\* extract_day: the DD of YYYY-MM-DD
extract_day(date) == date.d

\* datetime.strptime(date, "%Y-%m-%d") succeeds
IsCalendarDate(date) ==
    /\ date.y \in 1..9999
    /\ date.m \in 1..12
    /\ date.d >= 1
    /\ date.d <= get_days_in_month(months_in_order[date.m], date.y)

\* Optional[Transaction]: None, or a Transaction as __post_init__ leaves it
NoTx == [some |-> FALSE, date |-> NoDate, day |-> "", category |-> "", amount |-> 0,
         type |-> "", description |-> ""]
Transaction(date, day, category, amount, type, description) ==
    [some |-> TRUE, date |-> date, day |-> Strip(day), category |-> Upper(Strip(category)),
     amount |-> amount, type |-> Upper(Strip(type)), description |-> Strip(description)]

(***************************************************************************)
(* utils/validator.py: the checks of write_day_entry (TRUE: passes)         *)
(***************************************************************************)
validate_month_name(month_name) ==
    Strip(month_name) # "" /\ Upper(Strip(month_name)) \in MonthKeys

\* the key validate_month_name returns
MonthKey(month_name) == Upper(Strip(month_name))

validate_day_in_month(month_key, year, day) ==
    day >= 1 /\ day <= get_days_in_month(month_key, year)

validate_slot_index(slot_index) == slot_index \in {0, 1}

validate_transaction_or_none(tx) ==
    \/ ~tx.some
    \/ /\ tx.amount >= 0
       /\ Upper(Strip(tx.type)) \in {"INCOME", "EXPENSE"}
       /\ Strip(tx.category) # ""
       /\ tx.date # NoDate
       /\ IsCalendarDate(tx.date)

validate_date_matches_month(month_key, date, year) ==
    /\ IsCalendarDate(date)
    /\ date.y = year
    /\ date.m = month_to_number(month_key)

(***************************************************************************)
(* ExcelLoader: rows, reads and writes                                      *)
(***************************************************************************)
\* a row formula that gives each day one row
row_for_day_one_row_per_day(anchor_row, day, slot_index) == anchor_row + 2 + (day - 1) + slot_index

\* row_for_day (its own day >= 1 and slot checks repeat the validators')
row_for_day(anchor_row, day, slot_index) == anchor_row + 2 + (day - 1) * 2 + slot_index

ColumnsOf == {COL.DATE, COL.DAY, COL.CATEGORY, COL.AMOUNT, COL.TYPE, COL.DESCRIPTION}

\* a clear that leaves the description in place
clear_row_keeps_description(sheet, row) ==
    [c \in (DOMAIN sheet \cup {<<row, col>> : col \in ColumnsOf \ {COL.DESCRIPTION}}) |->
        IF c[1] = row /\ c[2] \in ColumnsOf \ {COL.DESCRIPTION} THEN Blank ELSE sheet[c]]

\* clear_row: every mapped column of the row set to None
clear_row(sheet, row) ==
    [c \in (DOMAIN sheet \cup {<<row, col>> : col \in ColumnsOf}) |->
        IF c[1] = row /\ c[2] \in ColumnsOf THEN Blank ELSE sheet[c]]

\* a write that stores the target day in the date column
WriteRow_target_day(sheet, row, day, tx) ==
    LET s1 == SetCell(sheet, row, COL.DATE, Num(day))
        s2 == SetCell(s1, row, COL.DAY, Str(tx.day))
        s3 == SetCell(s2, row, COL.CATEGORY, Str(tx.category))
        s4 == SetCell(s3, row, COL.AMOUNT, Num(tx.amount))
        s5 == SetCell(s4, row, COL.TYPE, Str(Upper(tx.type)))
    IN  SetCell(s5, row, COL.DESCRIPTION, Str(tx.description))

\* the six cell assignments of write_day_entry for a record
WriteRow(sheet, row, day, tx) ==
    LET s1 == SetCell(sheet, row, COL.DATE, Num(extract_day(tx.date)))
        s2 == SetCell(s1, row, COL.DAY, Str(tx.day))
        s3 == SetCell(s2, row, COL.CATEGORY, Str(tx.category))
        s4 == SetCell(s3, row, COL.AMOUNT, Num(tx.amount))
        s5 == SetCell(s4, row, COL.TYPE, Str(Upper(tx.type)))
    IN  SetCell(s5, row, COL.DESCRIPTION, Str(tx.description))

GridOutcome(raised, sheet) == [raised |-> raised, ws |-> sheet]

\* a write that clears the target row before it validates the record
write_day_entry_clear_first(sheet, month_name, day, slot_index, tx) ==
    IF ~validate_month_name(month_name) THEN GridOutcome(TRUE, sheet)
    ELSE LET month_key == MonthKey(month_name) IN
         IF get_year_raises(sheet) THEN GridOutcome(TRUE, sheet)
         ELSE IF ~validate_day_in_month(month_key, get_year(sheet), day) THEN GridOutcome(TRUE, sheet)
         ELSE IF ~validate_slot_index(slot_index) THEN GridOutcome(TRUE, sheet)
         ELSE LET row == row_for_day(MONTH_ANCHOR_ROW[month_key], day, slot_index)
                  cleared == clear_row(sheet, row)
              IN  IF ~validate_transaction_or_none(tx) THEN GridOutcome(TRUE, cleared)
                  ELSE IF tx.some /\ ~validate_date_matches_month(month_key, tx.date, get_year(sheet))
                       THEN GridOutcome(TRUE, cleared)
                  ELSE IF ~tx.some
                       THEN GridOutcome(FALSE, SetCell(cleared, row, COL.TYPE, Str("NONE")))
                       ELSE GridOutcome(FALSE, WriteRow(sheet, row, day, tx))

\* write_day_entry: validate, then clear the row and mark it NONE, or write the record
write_day_entry(sheet, month_name, day, slot_index, tx) ==
    IF ~validate_month_name(month_name) THEN GridOutcome(TRUE, sheet)
    ELSE LET month_key == MonthKey(month_name) IN
         IF get_year_raises(sheet) THEN GridOutcome(TRUE, sheet)
         ELSE IF ~validate_day_in_month(month_key, get_year(sheet), day) THEN GridOutcome(TRUE, sheet)
         ELSE IF ~validate_slot_index(slot_index) THEN GridOutcome(TRUE, sheet)
         ELSE IF ~validate_transaction_or_none(tx) THEN GridOutcome(TRUE, sheet)
         ELSE IF tx.some /\ ~validate_date_matches_month(month_key, tx.date, get_year(sheet))
              THEN GridOutcome(TRUE, sheet)
         ELSE LET row == row_for_day(MONTH_ANCHOR_ROW[month_key], day, slot_index) IN
              IF ~tx.some
              THEN GridOutcome(FALSE, SetCell(clear_row(sheet, row), row, COL.TYPE, Str("NONE")))
              ELSE GridOutcome(FALSE, WriteRow(sheet, row, day, tx))

\* read_row_as_transaction
read_row_as_transaction(sheet, month_key, year, day, row) ==
    LET t == Upper(Strip(safe_cell_str(sheet, row, COL.TYPE)))
        date_cell == Strip(safe_cell_str(sheet, row, COL.DATE))
        day_name == Strip(safe_cell_str(sheet, row, COL.DAY))
        category == Strip(safe_cell_str(sheet, row, COL.CATEGORY))
        amount_raw == CellValue(sheet, row, COL.AMOUNT)
        desc == Strip(safe_cell_str(sheet, row, COL.DESCRIPTION))
        is_all_blank ==
            /\ t = "" /\ date_cell = "" /\ day_name = "" /\ category = "" /\ desc = ""
            /\ (amount_raw.k = "blank" \/ Strip(PyStr(amount_raw)) = "")
    IN  IF t = "NONE" \/ (t = "" /\ is_all_blank) THEN NoTx
        ELSE IF t \notin VALID_TYPES THEN NoTx
        ELSE LET day_number == IF date_cell # "" THEN to_int(date_cell) ELSE day
             IN  Transaction(date_to_string(year, month_key, day_number), day_name, category,
                             to_float(amount_raw), t, desc)

\* read_month: day -> <<slot 0, slot 1>> for the days of the month in the workbook's year
read_month(sheet, month_name) ==
    LET month_key == MonthKey(month_name)
        anchor == MONTH_ANCHOR_ROW[month_key]
        year == get_year(sheet)
    IN  [d \in 1..get_days_in_month(month_key, year) |->
            LET row_top == row_for_day(anchor, d, 0) IN
            << read_row_as_transaction(sheet, month_key, year, d, row_top),
               read_row_as_transaction(sheet, month_key, year, d, row_top + 1) >>]


(***************************************************************************)
(* The adapter as a state machine: one open workbook copied from the        *)
(* template, written through write_day_entry                                *)
(***************************************************************************)
\* the workbook years of the model: a common year and a leap year
GridYears == {2023, 2024}

\* a fresh copy of the template: marker, income, year, the month names on their anchor rows
TemplateSheet(year) ==
    [c \in ({TEMPLATE_MARKER_CELL, CURRENT_INCOME_CELL, YEAR_CELL}
            \cup {<<MONTH_ANCHOR_ROW[m], 1>> : m \in MonthKeys}) |->
        IF c = TEMPLATE_MARKER_CELL THEN Str(TEMPLATE_MARKER_VALUE)
        ELSE IF c = CURRENT_INCOME_CELL THEN Num(0)
        ELSE IF c = YEAR_CELL THEN Num(year)
        ELSE Str(CHOOSE m \in MonthKeys : MONTH_ANCHOR_ROW[m] = c[1])]

\* records offered to write_day_entry
TxSamples ==
    { NoTx,
      Transaction(Date(2024, 1, 1), "Mon", " food ", 12, "expense", " lunch "),
      Transaction(Date(2024, 1, 31), "", "INCOME", 0, "INCOME", ""),
      Transaction(Date(2023, 1, 31), "", "INCOME", 0, "INCOME", ""),
      Transaction(Date(2024, 2, 29), " Thu", "GADGETS", 40, "EXPENSE", "leap"),
      Transaction(Date(2023, 2, 1), "", "FOOD", 7, "EXPENSE", "") }

\* records write_day_entry must reject: kind NONE, blank category, negative
\* amount, no date, a day the month does not have
BadTxSamples ==
    { Transaction(Date(2024, 1, 1), "", "NONE", 0, "NONE", ""),
      Transaction(Date(2024, 1, 1), "", "  ", 5, "EXPENSE", ""),
      Transaction(Date(2024, 1, 1), "", "FOOD", -1, "EXPENSE", ""),
      Transaction(NoDate, "", "FOOD", 5, "EXPENSE", ""),
      Transaction(Date(2023, 2, 29), "", "FOOD", 5, "EXPENSE", "") }

Call(month_name, day, slot_index, tx) ==
    [month |-> month_name, day |-> day, slot |-> slot_index, tx |-> tx]

\* (month, day, slot) targets offered to write_day_entry
Targets ==
    { <<"JANUARY", 1, 0>>, <<"JANUARY", 1, 1>>, <<"JANUARY", 31, 1>>,
      <<" february ", 1, 1>>, <<" february ", 29, 0>> }

\* the calls of the model: every sample record at every target, and calls with
\* an unknown month, a day or slot out of range, or a bad record
WriteCalls ==
    {Call(t[1], t[2], t[3], tx) : t \in Targets, tx \in TxSamples}
    \cup {Call("SMARCH", 1, 0, NoTx), Call("", 1, 0, NoTx), Call("JANUARY", 0, 0, NoTx),
          Call("JANUARY", 32, 1, NoTx), Call(" february ", 30, 0, NoTx),
          Call("JANUARY", 1, 2, NoTx), Call("JANUARY", 1, -1, NoTx)}
    \cup {Call("JANUARY", 1, 0, tx) : tx \in BadTxSamples}

\* rows of the month blocks that hold something
EntryRows(sheet) == {c[1] : c \in {x \in DOMAIN sheet : x[2] = COL.TYPE}}

\* what a read of the target's row gives, None when the target is not one
SlotValue(sheet, month_name, day, slot_index) ==
    IF /\ validate_month_name(month_name)
       /\ validate_day_in_month(MonthKey(month_name), get_year(sheet), day)
       /\ validate_slot_index(slot_index)
    THEN LET month_key == MonthKey(month_name) IN
         read_row_as_transaction(sheet, month_key, get_year(sheet), day,
                                 row_for_day(MONTH_ANCHOR_ROW[month_key], day, slot_index))
    ELSE NoTx

GridRecord(op, call, sheet, out) ==
    [op |-> op, month |-> call.month, day |-> call.day, slot |-> call.slot, tx |-> call.tx,
     before |-> SlotValue(sheet, call.month, call.day, call.slot), raised |-> out.raised]

GridInit ==
    /\ SmIdle /\ PfIdle /\ LdIdle /\ UiIdle
    /\ \E y \in GridYears : ws = TemplateSheet(y)
    /\ disk = ws
    /\ glast = GridRecord("init", Call("", 0, 0, NoTx), ws, GridOutcome(FALSE, ws))

WriteDayEntry ==
    \E call \in WriteCalls :
        LET out == write_day_entry(ws, call.month, call.day, call.slot, call.tx) IN
        /\ Cardinality(EntryRows(out.ws)) <= MaxRows
        /\ ws' = out.ws
        /\ glast' = GridRecord("write_day_entry", call, ws, out)
        /\ UNCHANGED <<disk, smVars, pfVars, ldVars, uiVars>>

GridNext == WriteDayEntry

GridSpec == GridInit /\ [][GridNext]_vars

(***************************************************************************)
(* file_io/excel_loader.py: the other operations of an open workbook        *)
(***************************************************************************)
\* verify_template on a sheet: str(A1).strip().upper() == TEMPLATE_MARKER_VALUE
sheet_verify_template(sheet) ==
    LET value == CellValue(sheet, TEMPLATE_MARKER_CELL[1], TEMPLATE_MARKER_CELL[2]) IN
    Upper(Strip(PyStr(value))) = TEMPLATE_MARKER_VALUE

YEAR_MIN == 1900
YEAR_MAX == 2100

\* validate_year_value
validate_year_value(year) == ~(year < YEAR_MIN \/ year > YEAR_MAX)

\* validate_income_value
validate_income_value(amount) == ~(amount < 0)

\* a set_year that writes the cell before it checks the range
set_year_write_first(sheet, year) ==
    GridOutcome(~validate_year_value(year), SetCell(sheet, YEAR_CELL[1], YEAR_CELL[2], Num(year)))

\* set_year
set_year(sheet, year) ==
    IF ~validate_year_value(year) THEN GridOutcome(TRUE, sheet)
    ELSE GridOutcome(FALSE, SetCell(sheet, YEAR_CELL[1], YEAR_CELL[2], Num(year)))

\* set_current_income
set_current_income(sheet, income) ==
    IF ~validate_income_value(income) THEN GridOutcome(TRUE, sheet)
    ELSE GridOutcome(FALSE, SetCell(sheet, CURRENT_INCOME_CELL[1], CURRENT_INCOME_CELL[2], Num(income)))

\* the slots of one day, written in order with their index; stops at the first
\* entry that raises, with what was written so far
RECURSIVE write_slots(_, _, _, _, _)
write_slots(sheet, month_norm, day, slots, i) ==
    IF i > Len(slots) THEN GridOutcome(FALSE, sheet)
    ELSE LET out == write_day_entry(sheet, month_norm, day, i - 1, slots[i]) IN
         IF out.raised THEN out
         ELSE write_slots(out.ws, month_norm, day, slots, i + 1)

\* the days of one month, in the order of the dict
RECURSIVE write_days(_, _, _, _)
write_days(sheet, month_norm, days, i) ==
    IF i > Len(days) THEN GridOutcome(FALSE, sheet)
    ELSE LET out == write_slots(sheet, month_norm, days[i].day, days[i].slots, 1) IN
         IF out.raised THEN out
         ELSE write_days(out.ws, month_norm, days, i + 1)

\* ExcelLoader.write_all: data is the dict as the sequence of its items,
\* [month, days] with days the sequence of [day, slots]
RECURSIVE loader_write_all(_, _, _)
loader_write_all(sheet, data, i) ==
    IF i > Len(data) THEN GridOutcome(FALSE, sheet)
    ELSE IF ~validate_month_name(data[i].month) THEN GridOutcome(TRUE, sheet)
    ELSE LET out == write_days(sheet, MonthKey(data[i].month), data[i].days, 1) IN
         IF out.raised THEN out
         ELSE loader_write_all(out.ws, data, i + 1)

\* read_row_as_transaction raises: the row is parsed and to_int raises on its date cell
read_row_raises(sheet, row) ==
    LET t == Upper(Strip(safe_cell_str(sheet, row, COL.TYPE)))
        date_cell == Strip(safe_cell_str(sheet, row, COL.DATE))
    IN  /\ t \in VALID_TYPES /\ t # "NONE"
        /\ date_cell # "" /\ to_int_raises(date_cell)

\* read_month raises: unknown month, get_year raising, or a row that raises
read_month_raises(sheet, month_name) ==
    \/ ~validate_month_name(month_name)
    \/ get_year_raises(sheet)
    \/ \E d \in 1..get_days_in_month(MonthKey(month_name), get_year(sheet)) : \E sl \in {0, 1} :
          read_row_raises(sheet, row_for_day(MONTH_ANCHOR_ROW[MonthKey(month_name)], d, sl))

\* ExcelLoader.read_all raises: read_month of some month does
loader_read_all_raises(sheet) == \E m \in MonthKeys : read_month_raises(sheet, m)

\* ExcelLoader.read_all: month -> read_month(month)
loader_read_all(sheet) == [m \in MonthKeys |-> read_month(sheet, m)]

(***************************************************************************)
(* The adapter as a state machine: every write, save and read of one open   *)
(* workbook, a copy of the template or an imported workbook with legacy     *)
(* cells                                                                    *)
(***************************************************************************)
SetRow(sheet, row, date, category, amount, type) ==
    SetCell(SetCell(SetCell(SetCell(sheet, row, COL.DATE, date), row, COL.CATEGORY, category),
                    row, COL.AMOUNT, amount), row, COL.TYPE, type)

\* imported workbooks that bear the marker: text in amount and date cells and a
\* blank category; no year; a year that is no number; a date cell that overflows
LegacySheets ==
    { SetRow(SetRow(TemplateSheet(2024), 10, Str("x"), Blank, Str("$12"), Str(" expense ")),
             11, Blank, Str("INCOME"), Str("abc"), Str("income")),
      SetCell(TemplateSheet(2024), YEAR_CELL[1], YEAR_CELL[2], Blank),
      SetCell(TemplateSheet(2024), YEAR_CELL[1], YEAR_CELL[2], Str("abc")),
      SetRow(TemplateSheet(2024), 10, Str("inf"), Str("FOOD"), Num(7), Str("EXPENSE")) }

AdapterSheets == {TemplateSheet(2024)} \cup LegacySheets

AdapterCalls ==
    { Call("JANUARY", 1, 0, NoTx),
      Call("JANUARY", 1, 0, Transaction(Date(2024, 1, 1), "Mon", " food ", 12, "expense", " lunch ")),
      Call(" february ", 29, 1, Transaction(Date(2024, 2, 29), " Thu", "GADGETS", 40, "EXPENSE", "leap")),
      Call("FEBRUARY", 1, 1, Transaction(Date(2024, 2, 29), "", "FOOD", 7, "EXPENSE", "")),
      Call("JANUARY", 32, 0, NoTx) }

Day(day, slots) == [day |-> day, slots |-> slots]
Month(month, days) == [month |-> month, days |-> days]

\* working sets offered to write_all: two slots of a day; one that is rejected
\* at its second entry; an unknown month; nothing
DataSamples ==
    { << Month("JANUARY", << Day(1, << Transaction(Date(2024, 1, 31), "", "INCOME", 30, "INCOME", ""), NoTx >>) >>) >>,
      << Month("JANUARY", << Day(1, << NoTx, Transaction(Date(2024, 2, 1), "", "FOOD", 7, "EXPENSE", "") >>) >>) >>,
      << Month("SMARCH", <<>>) >>,
      << >> }

YearInputs == {YEAR_MIN - 1, YEAR_MIN, YEAR_MAX, YEAR_MAX + 1}
IncomeInputs == {-1, 30}

AdapterRecord(op, call, arg, data, sheet, out) ==
    [op |-> op, month |-> call.month, day |-> call.day, slot |-> call.slot, tx |-> call.tx,
     before |-> SlotValue(sheet, call.month, call.day, call.slot), raised |-> out.raised,
     arg |-> arg, data |-> data]

NoCall == Call("", 0, 0, NoTx)

AdapterInit ==
    /\ SmIdle /\ PfIdle /\ LdIdle /\ UiIdle
    /\ ws \in AdapterSheets
    /\ disk = ws
    /\ glast = AdapterRecord("open", NoCall, 0, <<>>, ws, GridOutcome(FALSE, ws))

AdapterStep(op, call, arg, data, out) ==
    /\ Cardinality(EntryRows(out.ws)) <= MaxRows
    /\ ws' = out.ws
    /\ glast' = AdapterRecord(op, call, arg, data, ws, out)
    /\ UNCHANGED <<disk, smVars, pfVars, ldVars, uiVars>>

AWriteDayEntry ==
    \E call \in AdapterCalls :
        AdapterStep("write_day_entry", call, 0, <<>>,
                    write_day_entry(ws, call.month, call.day, call.slot, call.tx))

AWriteAll ==
    \E data \in DataSamples :
        AdapterStep("write_all", NoCall, 0, data, loader_write_all(ws, data, 1))

ASetYear ==
    \E y \in YearInputs : AdapterStep("set_year", NoCall, y, <<>>, set_year(ws, y))

ASetCurrentIncome ==
    \E a \in IncomeInputs : AdapterStep("set_current_income", NoCall, a, <<>>, set_current_income(ws, a))

\* ExcelLoader.save: the workbook is written to its path
ASave ==
    /\ disk' = ws
    /\ glast' = AdapterRecord("save", NoCall, 0, <<>>, ws, GridOutcome(FALSE, ws))
    /\ UNCHANGED <<ws, smVars, pfVars, ldVars, uiVars>>

AReadMonth ==
    \E m \in {"JANUARY", " february ", "SMARCH"} :
        AdapterStep("read_month", Call(m, 0, 0, NoTx), 0, <<>>, GridOutcome(read_month_raises(ws, m), ws))

AReadAll ==
    AdapterStep("read_all", NoCall, 0, <<>>, GridOutcome(loader_read_all_raises(ws), ws))

AdapterNext ==
    \/ AWriteDayEntry
    \/ AWriteAll
    \/ ASetYear
    \/ ASetCurrentIncome
    \/ ASave
    \/ AReadMonth
    \/ AReadAll

AdapterSpec == AdapterInit /\ [][AdapterNext]_vars

\* the same calls on a workbook that began as a copy of the blank template
TemplateInit == AdapterInit /\ ws = TemplateSheet(2024)

TemplateSpec == TemplateInit /\ [][AdapterNext]_vars

(***************************************************************************)
(* managers/analytic_manager.py, models/category_stats.py: read-only        *)
(* analytics over the session file                                          *)
(***************************************************************************)
EXPENSE_CATEGORIES ==
    {"HOUSING", "TRANSPORTATION", "INSURANCE", "SCHOOL", "FOOD", "PERSONAL CARE",
     "SUBSCRIPTIONS", "HOLIDAY EXPENSES", "MISCELLANEOUS"}
SPECIAL_CATEGORIES == {"INCOME", "NONE"}
ALL_CATEGORIES == EXPENSE_CATEGORIES \cup SPECIAL_CATEGORIES

\* the (month, day, slot) positions read_all visits
Positions(sheet) ==
    {<<m, d, sl>> \in MonthKeys \X (1..31) \X {0, 1} : d <= get_days_in_month(m, get_year(sheet))}

\* what a generator yields: the records with their positions (two equal records
\* at two positions are two items)
Yielded(sheet, positions) ==
    LET at(p) == read_month(sheet, p[1])[p[2]][p[3] + 1] IN
    {[pos |-> p, tx |-> at(p)] : p \in {q \in positions : at(q).some /\ at(q).type \in {"EXPENSE", "INCOME"}}}

\* _iter_all_transactions: nothing when the marker is missing, else every
\* record of read_all() of kind EXPENSE or INCOME
iter_all_transactions(sheet) ==
    IF ~sheet_verify_template(sheet) THEN {} ELSE Yielded(sheet, Positions(sheet))

\* _iter_month_transactions: every record of read_month(month_key) of kind
\* EXPENSE or INCOME
iter_month_transactions(sheet, month_key) ==
    Yielded(sheet, {p \in Positions(sheet) : p[1] = month_key})

\* sum(t.amount for t in items)
RECURSIVE SumAmounts(_)
SumAmounts(items) ==
    IF items = {} THEN 0
    ELSE LET r == CHOOSE x \in items : TRUE IN r.tx.amount + SumAmounts(items \ {r})

\* the key of a record in get_category_totals_year
CategoryKey(tx) == IF Upper(Strip(tx.category)) = "" THEN "MISCELLANEOUS" ELSE Upper(Strip(tx.category))

\* get_category_totals_year: key -> total of the EXPENSE records of that key
get_category_totals_year(sheet) ==
    LET expenses == {r \in iter_all_transactions(sheet) : Upper(Strip(r.tx.type)) = "EXPENSE"} IN
    [k \in {CategoryKey(r.tx) : r \in expenses} |->
        SumAmounts({r \in expenses : CategoryKey(r.tx) = k})]

\* get_month_totals: txs is a generator; the sum of the INCOME amounts runs it
\* to its end, so the sum of the EXPENSE amounts iterates over nothing
get_month_totals(sheet, month_key) ==
    LET txs == iter_month_transactions(sheet, month_key)
        income == SumAmounts({r \in txs : Upper(Strip(r.tx.type)) = "INCOME"})
        txs_after_first_sum == {}
        expense == SumAmounts({r \in txs_after_first_sum : Upper(Strip(r.tx.type)) = "EXPENSE"})
    IN  [income |-> income, expense |-> expense, net |-> income - expense]

\* get_monthly_series: the month totals in template order
get_monthly_series(sheet) == [i \in 1..12 |-> get_month_totals(sheet, months_in_order[i])]

RECURSIVE SumField(_, _, _)
SumField(series, field, i) ==
    IF i > Len(series) THEN 0 ELSE series[i][field] + SumField(series, field, i + 1)

\* compute_financial_summary
compute_financial_summary(sheet) ==
    LET totals == get_monthly_series(sheet)
        total_income == SumField(totals, "income", 1)
        total_expense == SumField(totals, "expense", 1)
    IN  [year |-> get_year(sheet), total_income |-> total_income, total_expense |-> total_expense,
         net_savings |-> total_income - total_expense]

(***************************************************************************)
(* Analytics applied to session files drawn by Init                         *)
(***************************************************************************)
NoRow == [date |-> Blank, category |-> Blank, amount |-> Blank, type |-> Blank]
Row(date, category, amount, type) == [date |-> date, category |-> category, amount |-> amount, type |-> type]

\* rows a session file may hold: an income row, expense rows of a known
\* category, of the category INCOME (a choice the dialog offers with kind
\* EXPENSE), of a category the application does not know, and of no category
RowSamples ==
    { NoRow,
      Row(Num(1), Str("INCOME"), Num(500), Str("INCOME")),
      Row(Num(1), Str("FOOD"), Num(100), Str("EXPENSE")),
      Row(Num(1), Str("INCOME"), Num(12), Str("EXPENSE")),
      Row(Num(1), Str("GADGETS"), Num(40), Str("EXPENSE")),
      Row(Blank, Blank, Num(7), Str(" expense ")) }

PutRow(sheet, row, r) ==
    IF r = NoRow THEN sheet ELSE SetRow(sheet, row, r.date, r.category, r.amount, r.type)

AnalyticRows ==
    << row_for_day(MONTH_ANCHOR_ROW.JANUARY, 1, 0), row_for_day(MONTH_ANCHOR_ROW.JANUARY, 1, 1),
       row_for_day(MONTH_ANCHOR_ROW.DECEMBER, 31, 1) >>

AnalyticSheets ==
    { PutRow(PutRow(PutRow(TemplateSheet(2024), AnalyticRows[1], a), AnalyticRows[2], b), AnalyticRows[3], c) :
        a \in RowSamples, b \in RowSamples, c \in RowSamples }

AnalyticsInit ==
    /\ SmIdle /\ LdIdle /\ UiIdle
    /\ ws = <<>> /\ glast = <<>>
    /\ disk \in AnalyticSheets
    /\ pf = [fn |-> "none", out |-> <<>>]

CategoryTotalsYear ==
    /\ pf' = [fn |-> "get_category_totals_year", out |-> get_category_totals_year(disk)]
    /\ UNCHANGED <<smVars, gridVars, ldVars, uiVars>>

FinancialSummary ==
    /\ pf' = [fn |-> "compute_financial_summary", out |-> compute_financial_summary(disk)]
    /\ UNCHANGED <<smVars, gridVars, ldVars, uiVars>>

AnalyticsNext == CategoryTotalsYear \/ FinancialSummary

AnalyticsSpec == AnalyticsInit /\ [][AnalyticsNext]_vars

(***************************************************************************)
(* utils/validator.py on paths: what each check raises and what it does to  *)
(* the file and the directory it is given                                   *)
(***************************************************************************)
\* a file at a path: whether it exists, has the .xlsx suffix, can be read, is
\* a workbook openpyxl loads, bears the marker, is within the upload size
\* limit, and how many times it has been written
PathFile(exists, xlsx, readable, loadable, sig, small) ==
    [exists |-> exists, xlsx |-> xlsx, readable |-> readable, loadable |-> loadable,
     sig |-> sig, small |-> small, writes |-> 0]

FileSamples ==
    { PathFile(TRUE, TRUE, TRUE, TRUE, TRUE, TRUE),      \* a valid workbook
      PathFile(FALSE, TRUE, FALSE, FALSE, FALSE, TRUE),  \* no such file
      PathFile(TRUE, FALSE, TRUE, TRUE, TRUE, TRUE),     \* wrong extension
      PathFile(TRUE, TRUE, FALSE, FALSE, FALSE, TRUE),   \* no read permission
      PathFile(TRUE, TRUE, TRUE, TRUE, TRUE, FALSE),     \* above the size limit
      PathFile(TRUE, TRUE, TRUE, FALSE, FALSE, TRUE),    \* not a workbook
      PathFile(TRUE, TRUE, TRUE, TRUE, FALSE, TRUE) }    \* workbook without the marker

\* a directory: whether it exists, could be created, and can be written to
PathDir(exists, creatable, writable) == [exists |-> exists, creatable |-> creatable, writable |-> writable]

DirSamples ==
    { PathDir(TRUE, TRUE, TRUE), PathDir(TRUE, TRUE, FALSE),
      PathDir(FALSE, TRUE, TRUE), PathDir(FALSE, FALSE, FALSE) }

\* the outcome of a check: "ok" or the exception type, and the file and
\* directory as the call leaves them
CheckOutcome(kind, file, dir) == [kind |-> kind, file |-> file, dir |-> dir]

\* ensure_directory_writable: mkdir(parents=True, exist_ok=True), then a
\* temporary file in the directory
ensure_directory_writable(file, dir) ==
    IF ~dir.exists /\ ~dir.creatable THEN CheckOutcome("ValidationError", file, dir)
    ELSE LET made == [dir EXCEPT !.exists = TRUE] IN
         IF ~made.writable THEN CheckOutcome("ValidationError", file, made)
         ELSE CheckOutcome("ok", file, made)

validate_fresh_session_paths_call(file, dir) ==
    IF ~file.exists THEN CheckOutcome("ValidationError", file, dir)
    ELSE IF ~file.xlsx THEN CheckOutcome("ValidationError", file, dir)
    ELSE ensure_directory_writable(file, dir)

validate_user_upload_path_call(file, dir) ==
    IF ~file.exists \/ ~file.xlsx \/ ~file.readable THEN CheckOutcome("ValidationError", file, dir)
    ELSE CheckOutcome("ok", file, dir)

\* validate_template_signature: load_workbook, read A1, wb.save(file_path); any
\* exception becomes a ValidationError; then the marker is compared
validate_template_signature_call(file, dir) ==
    IF ~file.exists \/ ~file.xlsx \/ ~file.readable \/ ~file.loadable
    THEN CheckOutcome("ValidationError", file, dir)
    ELSE LET saved == [file EXCEPT !.writes = @ + 1] IN
         IF ~file.sig THEN CheckOutcome("ValidationError", saved, dir)
         ELSE CheckOutcome("ok", saved, dir)

validate_download_target_path_call(file, dir) ==
    IF ~file.xlsx THEN CheckOutcome("ValidationError", file, dir)
    ELSE ensure_directory_writable(file, dir)

validate_open_excel_path_call(file, dir) ==
    IF ~file.exists \/ ~file.xlsx \/ ~file.readable THEN CheckOutcome("ValidationError", file, dir)
    ELSE CheckOutcome("ok", file, dir)

validate_backup_directory_call(file, dir) == ensure_directory_writable(file, dir)

\* validate_upload_filesize: Path.stat() on a missing file raises FileNotFoundError
validate_upload_filesize_call(file, dir) ==
    IF ~file.exists THEN CheckOutcome("FileNotFoundError", file, dir)
    ELSE IF ~file.small THEN CheckOutcome("ValidationError", file, dir)
    ELSE CheckOutcome("ok", file, dir)

\* validate_import_into_session: loader open, upload path, signature
validate_import_into_session_call(is_open, file, dir) ==
    IF ~is_open THEN CheckOutcome("ValidationError", file, dir)
    ELSE LET u == validate_user_upload_path_call(file, dir) IN
         IF u.kind # "ok" THEN u ELSE validate_template_signature_call(file, dir)

\* ExcelLoader.ensure_open
ensure_open_call(is_open, file, dir) ==
    IF ~is_open THEN CheckOutcome("ValidationError", file, dir) ELSE CheckOutcome("ok", file, dir)

\* ExcelLoader.open(path) up to load_workbook
open_call(file, dir) ==
    LET v == validate_open_excel_path_call(file, dir) IN
    IF v.kind # "ok" THEN v
    ELSE IF ~file.loadable THEN CheckOutcome("InvalidFileException", file, dir)
    ELSE CheckOutcome("ok", file, dir)

\* ExcelLoader.import_into_session(source_path) up to its checks: bound path,
\* size guard, validate_import_into_session
import_into_session_call(is_open, file, dir) ==
    IF ~is_open THEN CheckOutcome("ValidationError", file, dir)
    ELSE LET sz == validate_upload_filesize_call(file, dir) IN
         IF sz.kind # "ok" THEN sz ELSE validate_import_into_session_call(is_open, file, dir)

\* SessionManager.require_active_session, is_open standing for an active session
require_active_session_call(is_open, file, dir) ==
    IF ~is_open THEN CheckOutcome("ValidationError", file, dir) ELSE CheckOutcome("ok", file, dir)

ValidatorFns ==
    { "validate_fresh_session_paths", "validate_user_upload_path", "validate_template_signature",
      "validate_download_target_path", "validate_open_excel_path", "validate_backup_directory",
      "validate_upload_filesize", "validate_import_into_session" }

MethodFns == {"ensure_open", "open", "import_into_session", "require_active_session"}

RunCheck(fn, is_open, file, dir) ==
    CASE fn = "validate_fresh_session_paths"  -> validate_fresh_session_paths_call(file, dir)
      [] fn = "validate_user_upload_path"     -> validate_user_upload_path_call(file, dir)
      [] fn = "validate_template_signature"   -> validate_template_signature_call(file, dir)
      [] fn = "validate_download_target_path" -> validate_download_target_path_call(file, dir)
      [] fn = "validate_open_excel_path"      -> validate_open_excel_path_call(file, dir)
      [] fn = "validate_backup_directory"     -> validate_backup_directory_call(file, dir)
      [] fn = "validate_upload_filesize"      -> validate_upload_filesize_call(file, dir)
      [] fn = "validate_import_into_session"  -> validate_import_into_session_call(is_open, file, dir)
      [] fn = "ensure_open"                   -> ensure_open_call(is_open, file, dir)
      [] fn = "open"                          -> open_call(file, dir)
      [] fn = "import_into_session"           -> import_into_session_call(is_open, file, dir)
      [] fn = "require_active_session"        -> require_active_session_call(is_open, file, dir)

\* one check, on one file and one directory, with the adapter open or not
ChecksInit ==
    /\ SmIdle /\ GridIdle /\ LdIdle /\ UiIdle
    /\ \E fn \in ValidatorFns \cup MethodFns, is_open \in BOOLEAN, file \in FileSamples, dir \in DirSamples :
          pf = [fn |-> fn, is_open |-> is_open, file |-> file, dir |-> dir, out |-> <<>>]

ChecksApply ==
    /\ pf.out = <<>>
    /\ pf' = [pf EXCEPT !.out = RunCheck(pf.fn, pf.is_open, pf.file, pf.dir)]
    /\ UNCHANGED <<smVars, gridVars, ldVars, uiVars>>

ChecksNext == ChecksApply

ChecksSpec == ChecksInit /\ [][ChecksNext]_vars

(***************************************************************************)
(* file_io/excel_loader.py: the lifecycle of one ExcelLoader object over    *)
(* a few files.  _wb is the content load_workbook returned (NoFile stands   *)
(* for None), _path the path the object is bound to.                        *)
(***************************************************************************)
TemplatePath == "template/templateFile.xlsx"
OtherPath == "uploads/other.xlsx"
NotesPath == "uploads/notes.txt"
Paths == {UserDataPath, TemplatePath, OtherPath, NotesPath}

\* Path(p).suffix.lower() == ".xlsx"
IsXlsx(p) == p # NotesPath

\* ExcelLoader.__init__ and close(): _wb, _ws and _path are None
Closed == [wb |-> NoFile, path |-> None]

LoaderOutcome(raised, ld, files) == [raised |-> raised, loader |-> ld, fs |-> files]

\* validate_open_excel_path: exists, is a file, .xlsx
validate_open_excel_path(files, p) == files[p].exists /\ IsXlsx(p)

\* ExcelLoader.open: validate, set _path, then load_workbook (which may raise),
\* then set _wb and _ws
loader_open(ld, files, p) ==
    IF ~validate_open_excel_path(files, p) THEN LoaderOutcome(TRUE, ld, files)
    ELSE IF ~files[p].loadable THEN LoaderOutcome(TRUE, [ld EXCEPT !.path = p], files)
    ELSE LoaderOutcome(FALSE, [wb |-> files[p], path |-> p], files)

loader_close(ld, files) == LoaderOutcome(FALSE, Closed, files)

\* ensure_open: _wb and _ws are not None
loader_is_open(ld) == ld.wb # NoFile

\* a write method (set_year, write_day_entry, ...) on the open workbook: the
\* content in memory becomes the user's
loader_write(ld, files) ==
    IF ~loader_is_open(ld) THEN LoaderOutcome(TRUE, ld, files)
    ELSE LoaderOutcome(FALSE, [ld EXCEPT !.wb.data = "user"], files)

\* ExcelLoader.save: ensure_open, a path is bound, _wb.save(_path)
loader_save(ld, files) ==
    IF ~loader_is_open(ld) THEN LoaderOutcome(TRUE, ld, files)
    ELSE IF ld.path = None THEN LoaderOutcome(TRUE, ld, files)
    ELSE LoaderOutcome(FALSE, ld, [files EXCEPT ![ld.path] = ld.wb])

\* a prepare_fresh_session that leaves the rejected copy in place
loader_prepare_fresh_session_keep_copy(ld, files, tpl) ==
    IF ~(files[tpl].exists /\ IsXlsx(tpl)) THEN LoaderOutcome(TRUE, ld, files)
    ELSE IF tpl = UserDataPath THEN LoaderOutcome(TRUE, ld, files)
    ELSE LET copied == [files EXCEPT ![UserDataPath] = files[tpl]]
             o == loader_open(ld, copied, UserDataPath)
         IN  IF o.raised THEN o
             ELSE IF ~o.loader.wb.sig THEN LoaderOutcome(TRUE, Closed, copied)
             ELSE o

\* ExcelLoader.prepare_fresh_session: validate_fresh_session_paths, copy2 the
\* template to storage_dir/user_data.xlsx (SameFileError when it is that file),
\* open the copy, verify_template; when that fails close, unlink the copy, raise
loader_prepare_fresh_session(ld, files, tpl) ==
    IF ~(files[tpl].exists /\ IsXlsx(tpl)) THEN LoaderOutcome(TRUE, ld, files)
    ELSE IF tpl = UserDataPath THEN LoaderOutcome(TRUE, ld, files)
    ELSE LET copied == [files EXCEPT ![UserDataPath] = files[tpl]]
             o == loader_open(ld, copied, UserDataPath)
         IN  IF o.raised THEN o
             ELSE IF ~o.loader.wb.sig
                  THEN LoaderOutcome(TRUE, Closed, [copied EXCEPT ![UserDataPath] = NoFile])
             ELSE o

(***************************************************************************)
(* The ExcelLoader object as a state machine                                *)
(***************************************************************************)
LoaderFiles ==
    { (UserDataPath :> u) @@ (TemplatePath :> t) @@ (OtherPath :> o) @@ (NotesPath :> Garbage) :
        u \in {NoFile, Workbook(TRUE, "user")},
        t \in Templates,
        o \in {Workbook(TRUE, "blank"), Workbook(FALSE, "blank"), Garbage} }

LoaderRecord(op, path, out) == [op |-> op, path |-> path, raised |-> out.raised]

LoaderInit ==
    /\ SmIdle /\ PfIdle /\ UiIdle
    /\ ws = <<>> /\ disk = <<>>
    /\ loader = Closed
    /\ fs \in LoaderFiles
    /\ glast = LoaderRecord("init", None, LoaderOutcome(FALSE, loader, fs))

LoaderStep(op, path, out) ==
    /\ loader' = out.loader
    /\ fs' = out.fs
    /\ glast' = LoaderRecord(op, path, out)
    /\ UNCHANGED <<ws, disk, smVars, pfVars, uiVars>>

LOpen == \E p \in Paths : LoaderStep("open", p, loader_open(loader, fs, p))
LClose == LoaderStep("close", None, loader_close(loader, fs))
LWrite == LoaderStep("write", None, loader_write(loader, fs))
LSave == LoaderStep("save", None, loader_save(loader, fs))
LPrepareFresh ==
    \E tpl \in Paths :
        LoaderStep("prepare_fresh_session", tpl, loader_prepare_fresh_session(loader, fs, tpl))

LoaderNext == LOpen \/ LClose \/ LWrite \/ LSave \/ LPrepareFresh

LoaderSpec == LoaderInit /\ [][LoaderNext]_vars

(***************************************************************************)
(* Pure functions applied to inputs drawn by Init                           *)
(***************************************************************************)
PfMonths == {"JANUARY", "FEBRUARY", "APRIL", "DECEMBER"}

DaySlots(month_key, year) == (1..get_days_in_month(month_key, year)) \X {0, 1}

\* two (day, slot) targets of one month, to be mapped to their rows
PfInit ==
    /\ SmIdle /\ GridIdle /\ LdIdle /\ UiIdle
    /\ \E m \in PfMonths, y \in GridYears :
        \E a \in DaySlots(m, y), b \in DaySlots(m, y) :
            pf = [fn |-> "row_for_day", month |-> m, year |-> y, a |-> a, b |-> b, out |-> <<>>]

PfApply ==
    /\ pf.out = <<>>
    /\ pf' = [pf EXCEPT !.out = << row_for_day(MONTH_ANCHOR_ROW[pf.month], pf.a[1], pf.a[2]),
                                   row_for_day(MONTH_ANCHOR_ROW[pf.month], pf.b[1], pf.b[2]) >>]
    /\ UNCHANGED <<smVars, gridVars, ldVars, uiVars>>

PfNext == PfApply

PureSpec == PfInit /\ [][PfNext]_vars

(***************************************************************************)
(* utils/general_helper.py: get_days_in_month on month names as callers     *)
(* may spell them                                                           *)
(***************************************************************************)
months_lower ==
    <<"january", "february", "march", "april", "may", "june",
      "july", "august", "september", "october", "november", "december">>
months_title ==
    <<"January", "February", "March", "April", "May", "June",
      "July", "August", "September", "October", "November", "December">>

\* str.lower() on the month spellings of the model
Lower(s) ==
    IF \E i \in 1..12 : s \in {months_in_order[i], months_title[i]}
    THEN months_lower[CHOOSE i \in 1..12 : s \in {months_in_order[i], months_title[i]}]
    ELSE s

\* the month_days table of get_days_in_month
month_days ==
    [january |-> 31, february |-> 28, march |-> 31, april |-> 30, may |-> 31,
     june |-> 30, july |-> 31, august |-> 31, september |-> 30, october |-> 31,
     november |-> 30, december |-> 31]

\* GeneralHelper.get_days_in_month(month, year): strip and lower the name, look
\* it up (ValueError when unknown), 29 for february in a leap year
GeneralHelper_get_days_in_month(month, year) ==
    LET m == Lower(Strip(month)) IN
    IF m \notin DOMAIN month_days THEN [raised |-> TRUE, ret |-> 0]
    ELSE IF m = "february" /\ is_leap_year(year) THEN [raised |-> FALSE, ret |-> 29]
    ELSE [raised |-> FALSE, ret |-> month_days[m]]

\* spellings of the twelve month names, and one name that is none of them
MonthSpellings ==
    {months_in_order[i] : i \in 1..12} \cup {months_title[i] : i \in 1..12}
        \cup {months_lower[i] : i \in 1..12} \cup {" february "}
MonthInputs == MonthSpellings \cup {"SMARCH"}

CalendarInit ==
    /\ SmIdle /\ GridIdle /\ LdIdle /\ UiIdle
    /\ \E m \in MonthInputs, y \in YEAR_MIN..YEAR_MAX :
          pf = [fn |-> "get_days_in_month", month |-> m, year |-> y, out |-> <<>>]

GetDaysInMonth ==
    /\ pf.out = <<>>
    /\ pf' = [pf EXCEPT !.out = GeneralHelper_get_days_in_month(pf.month, pf.year)]
    /\ UNCHANGED <<smVars, gridVars, ldVars, uiVars>>

CalendarNext == GetDaysInMonth

CalendarSpec == CalendarInit /\ [][CalendarNext]_vars

(***************************************************************************)
(* ui/screens/transaction_scene.py and SessionManager.write_all on the      *)
(* cells of the session file: batches of entries queued, then written       *)
(* through a new ExcelLoader and saved                                      *)
(***************************************************************************)
\* number of entries the working set may hold before the model stops queueing
MaxQueued == 2

FileOutcome(raised, file) == [raised |-> raised, disk |-> file]

\* a batch write that saves what it wrote before the rejected entry
session_write_all_save_partial(file, data) ==
    IF ~sheet_verify_template(file) THEN FileOutcome(TRUE, file)
    ELSE LET out == loader_write_all(file, data, 1) IN
         FileOutcome(out.raised, out.ws)

\* SessionManager.write_all on the session file: open, verify_template,
\* loader.write_all(data), loader.save(), loader.close(); save is not reached
\* when write_all raises
session_write_all(file, data) ==
    IF ~sheet_verify_template(file) THEN FileOutcome(TRUE, file)
    ELSE LET out == loader_write_all(file, data, 1) IN
         IF out.raised THEN FileOutcome(TRUE, file)
         ELSE FileOutcome(FALSE, out.ws)

\* none_checker: Type NONE with a Category other than NONE is not queued
none_checker(category_key, type_key) == ~(type_key = "NONE" /\ category_key # "NONE")

\* what on_add_clicked does with the form: "blocked" by none_checker, a
\* "clear" queued for NONE + NONE, "invalid" when the day is not one of the
\* month in the workbook's year or the record fails validation, else the
\* record "queued", dated year-month-day of the target
on_add_clicked(file, month_key, day, category_key, type_key, amount, desc) ==
    IF ~none_checker(category_key, type_key) THEN [kind |-> "blocked", tx |-> NoTx]
    ELSE IF type_key = "NONE" /\ category_key = "NONE" THEN [kind |-> "clear", tx |-> NoTx]
    ELSE IF get_year_raises(file) THEN [kind |-> "invalid", tx |-> NoTx]
    ELSE IF ~validate_day_in_month(month_key, get_year(file), day) THEN [kind |-> "invalid", tx |-> NoTx]
    ELSE LET tx == Transaction(date_to_string(get_year(file), month_key, day), "",
                               category_key, amount, type_key, desc)
         IN  IF ~validate_transaction_or_none(tx) THEN [kind |-> "invalid", tx |-> NoTx]
             ELSE [kind |-> "queued", tx |-> tx]

\* the loop of on_save_clicked: write_day_entry for every item of the working
\* set, stopping at the first that raises (the items have different keys, so
\* the order of the dict decides neither whether one raises nor the cells when
\* none does)
RECURSIVE write_working_set(_, _)
write_working_set(sheet, wset) ==
    IF DOMAIN wset = {} THEN GridOutcome(FALSE, sheet)
    ELSE LET k == CHOOSE x \in DOMAIN wset : TRUE
             out == write_day_entry(sheet, k[1], k[2], k[3], wset[k])
         IN  IF out.raised THEN out
             ELSE write_working_set(out.ws, [x \in DOMAIN wset \ {k} |-> wset[x]])

\* on_save_clicked with a working set that is not empty: open the session file,
\* write the items, save, close, clear the working set; any exception is shown
\* as "Save Error" and leaves file and working set as they are
on_save_clicked(file, wset) ==
    LET out == write_working_set(file, wset) IN
    IF out.raised THEN [raised |-> TRUE, disk |-> file, working_set |-> wset]
    ELSE [raised |-> FALSE, disk |-> out.ws, working_set |-> <<>>]

(***************************************************************************)
(* The dialog and the session file as a state machine                       *)
(***************************************************************************)
\* month, day (the spin box offers 1..31), slot
UiTargets ==
    { <<"JANUARY", 1, 0>>, <<"FEBRUARY", 29, 0>>, <<"FEBRUARY", 30, 0>>, <<"APRIL", 31, 1>> }

\* category, type, amount, description as the form holds them
UiForms ==
    { <<"FOOD", "EXPENSE", 12, "lunch">>, <<"NONE", "NONE", 0, "">>, <<"FOOD", "NONE", 5, "">> }

\* what is kept of an event: the handler, its target or data, whether it failed
UiRecord(op, arg, raised) == [op |-> op, arg |-> arg, raised |-> raised]

Put(wset, key, entry) == [x \in DOMAIN wset \cup {key} |-> IF x = key THEN entry ELSE wset[x]]

DialogInit ==
    /\ SmIdle /\ PfIdle /\ LdIdle
    /\ ws = <<>>
    /\ disk = TemplateSheet(2024)
    /\ working_set = <<>>
    /\ glast = UiRecord("init", <<>>, FALSE)

OnAddClicked ==
    \E key \in UiTargets, form \in UiForms :
        LET r == on_add_clicked(disk, key[1], key[2], form[1], form[2], form[3], form[4]) IN
        /\ working_set' = IF r.kind \in {"clear", "queued"} THEN Put(working_set, key, r.tx)
                          ELSE working_set
        /\ Cardinality(DOMAIN working_set') <= MaxQueued
        /\ glast' = UiRecord("on_add_clicked", key, r.kind \in {"blocked", "invalid"})
        /\ UNCHANGED <<ws, disk, smVars, pfVars, ldVars>>

OnRemoveClicked ==
    \E key \in UiTargets :
        /\ working_set' = Put(working_set, key, NoTx)
        /\ Cardinality(DOMAIN working_set') <= MaxQueued
        /\ glast' = UiRecord("on_remove_clicked", key, FALSE)
        /\ UNCHANGED <<ws, disk, smVars, pfVars, ldVars>>

OnSaveClicked ==
    /\ DOMAIN working_set # {}
    /\ LET out == on_save_clicked(disk, working_set) IN
       /\ Cardinality(EntryRows(out.disk)) <= MaxRows
       /\ disk' = out.disk
       /\ working_set' = out.working_set
       /\ glast' = UiRecord("on_save_clicked", <<>>, out.raised)
    /\ UNCHANGED <<ws, smVars, pfVars, ldVars>>

SessionWriteAll ==
    \E data \in DataSamples :
        LET out == session_write_all(disk, data) IN
        /\ Cardinality(EntryRows(out.disk)) <= MaxRows
        /\ disk' = out.disk
        /\ glast' = [UiRecord("write_all", <<>>, out.raised) EXCEPT !.arg = data]
        /\ UNCHANGED <<ws, working_set, smVars, pfVars, ldVars>>

DialogNext == OnAddClicked \/ OnRemoveClicked \/ OnSaveClicked \/ SessionWriteAll

DialogSpec == DialogInit /\ [][DialogNext]_vars

(***************************************************************************)
(* Adapter: properties                                                      *)
(***************************************************************************)
\* the target of the last call is one write_day_entry accepts: a month of the
\* twelve, a day of that month in the workbook's year, slot 0 or 1
ValidTarget ==
    /\ Upper(Strip(glast.month)) \in MonthKeys
    /\ glast.day \in 1..get_days_in_month(Upper(Strip(glast.month)), get_year(ws))
    /\ glast.slot \in {0, 1}

\* the record of the last call is valid for its target: amount >= 0, kind INCOME
\* or EXPENSE, category not empty, date in the workbook's year and the target month
ValidRecord ==
    /\ glast.tx.some
    /\ glast.tx.amount >= 0
    /\ glast.tx.type \in {"INCOME", "EXPENSE"}
    /\ glast.tx.category # ""
    /\ IsCalendarDate(glast.tx.date)
    /\ glast.tx.date.y = get_year(ws)
    /\ months_in_order[glast.tx.date.m] = Upper(Strip(glast.month))

\* C1: a valid record written to a valid (month, day, slot) is accepted, and
\* read_month(month)[day][slot] then returns a record equal to it in date,
\* weekday label, category, amount, kind and description.
C1_WriteThenReadRoundTrip ==
    (glast.op = "write_day_entry" /\ ValidTarget /\ ValidRecord)
    => /\ ~glast.raised
       /\ LET got == read_month(ws, glast.month)[glast.day][glast.slot + 1] IN
          /\ got.some
          /\ got.date = glast.tx.date
          /\ got.day = glast.tx.day
          /\ got.category = glast.tx.category
          /\ got.amount = glast.tx.amount
          /\ got.type = glast.tx.type
          /\ got.description = glast.tx.description

\* a record dated the 31st was written under day 1 of its month, over a slot
\* that held another record
C1_Witness ==
    /\ glast.op = "write_day_entry" /\ ValidTarget /\ ValidRecord /\ ~glast.raised
    /\ glast.tx.date.d # glast.day
    /\ glast.before.some /\ glast.before # glast.tx

\* C2: write_day_entry(month, day, slot, None) on a valid target, whatever the
\* slot held, leaves the row's tracked columns blank except the type column,
\* which holds NONE, and the slot then reads as None.
C2_ClearLeavesNoneMarker ==
    (glast.op = "write_day_entry" /\ ValidTarget /\ ~glast.tx.some)
    => /\ ~glast.raised
       /\ LET row == MONTH_ANCHOR_ROW[Upper(Strip(glast.month))] + 2 + (glast.day - 1) * 2 + glast.slot IN
          /\ \A col \in ColumnsOf \ {COL.TYPE} : CellValue(ws, row, col) = Blank
          /\ CellValue(ws, row, COL.TYPE) = Str("NONE")
       /\ ~read_month(ws, glast.month)[glast.day][glast.slot + 1].some

\* a slot that held a record was cleared
C2_Witness ==
    /\ glast.op = "write_day_entry" /\ ValidTarget /\ ~glast.tx.some /\ ~glast.raised
    /\ glast.before.some /\ glast.before.description # ""

\* a record that lacks something: negative amount, kind other than INCOME or
\* EXPENSE, blank category, no date or a date that is no calendar date
Incomplete(tx) ==
    \/ tx.amount < 0
    \/ tx.type \notin {"INCOME", "EXPENSE"}
    \/ tx.category = ""
    \/ ~IsCalendarDate(tx.date)

\* the call is one the contract rejects, given the workbook's year
MustReject(call, year) ==
    LET key == Upper(Strip(call.month)) IN
    \/ key \notin MonthKeys
    \/ call.day \notin 1..get_days_in_month(key, year)
    \/ call.slot \notin {0, 1}
    \/ (call.tx.some /\ Incomplete(call.tx))
    \/ (call.tx.some /\ call.tx.date.y # year)
    \/ (call.tx.some /\ months_in_order[call.tx.date.m] # key)

\* two sheets hold the same value in every cell
SameCells(a, b) ==
    \A c \in DOMAIN a \cup DOMAIN b : CellValue(a, c[1], c[2]) = CellValue(b, c[1], c[2])

\* C11: write_day_entry validates before it mutates: with an unknown month, a
\* day outside 1..daysInMonth(month, workbook year), a slot other than 0 or 1,
\* an incomplete record, or a record dated in another year or month, the call
\* raises and no cell of the grid is changed.
C11_RejectedWriteChangesNoCell ==
    [][ (glast'.op = "write_day_entry" /\ MustReject(glast', get_year(ws)))
        => (glast'.raised /\ SameCells(ws, ws')) ]_vars

\* a record dated in another month was refused over a slot that holds a record
C11_Witness ==
    /\ glast.op = "write_day_entry" /\ glast.raised
    /\ ValidTarget /\ glast.tx.some /\ ~Incomplete(glast.tx)
    /\ glast.tx.date.y = get_year(ws)
    /\ months_in_order[glast.tx.date.m] # Upper(Strip(glast.month))
    /\ glast.before.some

YearCell(sheet) == CellValue(sheet, YEAR_CELL[1], YEAR_CELL[2])

\* C12: set_year(y) succeeds exactly when 1900 <= y <= 2100, and get_year()
\* then returns y; for any other y it raises and the year cell keeps its value.
C12_SetYearRange ==
    [][ glast'.op = "set_year"
        => IF glast'.arg >= 1900 /\ glast'.arg <= 2100
           THEN ~glast'.raised /\ ~get_year_raises(ws') /\ get_year(ws') = glast'.arg
           ELSE glast'.raised /\ YearCell(ws') = YearCell(ws) ]_vars

\* the largest year of the range was set on a workbook that holds entries
C12_Witness ==
    /\ glast.op = "set_year" /\ glast.arg = 2100 /\ ~glast.raised
    /\ get_year(ws) = 2100 /\ EntryRows(ws) # {}

\* C13: the signature marker is preserved by every write: from a workbook for
\* which verify_template() is true, no sequence of write_day_entry, write_all,
\* set_year, set_current_income and save calls changes the signature cell, in
\* the open workbook or in the file save writes.
C13_WritesKeepSignature ==
    /\ (ws # <<>> => sheet_verify_template(ws))
    /\ (disk # <<>> => sheet_verify_template(disk))

\* a workbook written by write_all (a cleared slot 1 of January 1), set_year
\* and set_current_income has just been saved
C13_Witness ==
    /\ glast.op = "save" /\ disk = ws
    /\ CellValue(ws, row_for_day(MONTH_ANCHOR_ROW.JANUARY, 1, 1), COL.TYPE) = Str("NONE")
    /\ get_year(ws) = 1900
    /\ CellValue(ws, CURRENT_INCOME_CELL[1], CURRENT_INCOME_CELL[2]) = Num(30)
    /\ sheet_verify_template(disk)

\* records of one kind in the session file
OfKind(sheet, kind) == {r \in iter_all_transactions(sheet) : r.tx.type = kind}

\* the sum of the buckets of a result
RECURSIVE SumBuckets(_, _)
SumBuckets(totals, keys) ==
    IF keys = {} THEN 0
    ELSE LET k == CHOOSE x \in keys : TRUE IN totals[k] + SumBuckets(totals, keys \ {k})

\* C14: get_category_totals_year sums EXPENSE records only: the buckets add up
\* to the EXPENSE amounts, so no INCOME record contributes, and the result has
\* no income bucket.
C14_CategoryTotalsExcludeIncome ==
    pf # <<>> /\ pf.fn = "get_category_totals_year"
    => /\ SumBuckets(pf.out, DOMAIN pf.out) = SumAmounts(OfKind(disk, "EXPENSE"))
       /\ "INCOME" \notin DOMAIN pf.out

\* C15: in get_category_totals_year an EXPENSE record whose category is blank
\* or not a known category is counted under MISCELLANEOUS; the keys of the
\* result are known category names.
C15_UnknownCategoriesFoldToMisc ==
    pf # <<>> /\ pf.fn = "get_category_totals_year"
    => /\ DOMAIN pf.out \subseteq ALL_CATEGORIES
       /\ LET folded == {r \in OfKind(disk, "EXPENSE") :
                            r.tx.category \notin ALL_CATEGORIES \ {"MISCELLANEOUS"}}
          IN  folded # {} => ("MISCELLANEOUS" \in DOMAIN pf.out
                              /\ pf.out["MISCELLANEOUS"] = SumAmounts(folded))

\* C16: compute_financial_summary returns total_income = the sum of the INCOME
\* amounts of the year, total_expense = the sum of the EXPENSE amounts, and
\* net_savings = total_income - total_expense.
C16_SummaryTotals ==
    pf # <<>> /\ pf.fn = "compute_financial_summary"
    => /\ pf.out.total_income = SumAmounts(OfKind(disk, "INCOME"))
       /\ pf.out.total_expense = SumAmounts(OfKind(disk, "EXPENSE"))
       /\ pf.out.net_savings = pf.out.total_income - pf.out.total_expense

\* a check of ChecksSpec has been applied
Checked == pf # <<>> /\ "is_open" \in DOMAIN pf /\ pf.out # <<>>

\* C17: validators never mutate: a call to any validate_* function, returning
\* or raising, leaves the file it was given as it was (it is not rewritten)
\* and the directory as it was (it is not created).
C17_ValidatorsDoNotMutate ==
    (Checked /\ pf.fn \in ValidatorFns)
    => (pf.out.file = pf.file /\ pf.out.dir = pf.dir)

\* C18: every precondition violation in a validator, an adapter method or an
\* orchestrator method is reported as ValidationError, never as another
\* exception type.
C18_SingleErrorKind ==
    (Checked /\ pf.out.kind # "ok" /\ (~pf.file.exists \/ ~pf.file.xlsx \/ ~pf.file.readable
                                         \/ ~pf.file.sig \/ ~pf.is_open))
    => pf.out.kind = "ValidationError"

\* text that float() does not parse
Unparsable(v) == v.k = "str" /\ Strip(v.s) # "" /\ ~ParsesAsNumber(Strip(v.s)) /\ v.s \notin {"$12", "1,0"}

\* the records read from January 1 have amount 0.0 where the amount cell does
\* not parse and day number 0 where the date cell does not
CoercedToZero(sheet) ==
    \A sl \in {0, 1} :
        LET row == row_for_day(MONTH_ANCHOR_ROW.JANUARY, 1, sl)
            got == read_row_as_transaction(sheet, "JANUARY", get_year(sheet), 1, row)
        IN  (got.some /\ ~read_row_raises(sheet, row))
            => /\ (Unparsable(CellValue(sheet, row, COL.AMOUNT)) => got.amount = 0)
               /\ (Unparsable(CellValue(sheet, row, COL.DATE)) => got.date.d = 0)

\* C19: reads never abort on malformed cell content: whatever the cells of the
\* open workbook hold (blank, text, unparsable numbers, in amount, date and
\* scalar cells), read_month of a month of the twelve and read_all complete
\* without raising, with an unparsable amount read as 0.0 and an unparsable
\* day number as 0.
C19_ReadsNeverRaise ==
    (glast # <<>> /\ glast.op \in {"read_month", "read_all"}
       /\ (glast.op = "read_month" => Upper(Strip(glast.month)) \in MonthKeys))
    => (~glast.raised /\ CoercedToZero(ws))

\* (day, slot) pairs in lexicographic order
LexLess(a, b) == a[1] < b[1] \/ (a[1] = b[1] /\ a[2] < b[2])

\* C3: within a month block row_for_day(anchor, day, slot) is
\* anchor + 2 + (day-1)*2 + slot, strictly increasing in the lexicographic
\* order of (day, slot), and injective on day in 1..daysInMonth, slot in {0,1}.
C3_RowForDayIncreasingInjective ==
    (pf # <<>> /\ pf.out # <<>>)
    => /\ pf.out[1] = MONTH_ANCHOR_ROW[pf.month] + 2 + (pf.a[1] - 1) * 2 + pf.a[2]
       /\ LexLess(pf.a, pf.b) => pf.out[1] < pf.out[2]
       /\ pf.a # pf.b => pf.out[1] # pf.out[2]

\* slot 1 of a day and slot 0 of the next day were mapped to rows
C3_Witness ==
    /\ pf # <<>> /\ pf.out # <<>>
    /\ pf.a[2] = 1 /\ pf.b = <<pf.a[1] + 1, 0>>
    /\ pf.out[2] = pf.out[1] + 1


(***************************************************************************)
(* Session orchestrator: properties                                         *)
(***************************************************************************)
StartOps == {"start_fresh_session", "start_imported_session"}
FileOps == {"read_all", "write_all", "save", "save_backup"}

\* C4: after any sequence of start_fresh_session, start_imported_session and
\* end_session_and_archive calls, returning or raising, the session state is
\* NoSession (path None, mode None), Active(FRESH) or Active(IMPORTED): path and
\* mode are set together, and an active session has mode FRESH or IMPORTED.
C4_SessionStateIsOneOfThree ==
    /\ state.session_path \in {None, UserDataPath}
    /\ state.mode \in {None, "FRESH", "IMPORTED"}
    /\ (state.session_path = None) <=> (state.mode = None)
    /\ is_session_active(World) => state.mode \in {"FRESH", "IMPORTED"}

\* a start raised and a session of the earlier mode is still in the state
C4_Witness ==
    /\ last.op \in StartOps /\ last.raised
    /\ state.session_path = UserDataPath /\ state.mode = "IMPORTED"

\* the upload fails validation: missing, wrong extension, unreadable, over the
\* size limit, not a workbook, marker missing
FailsUploadValidation(src, w) ==
    \/ src \in {"missing", "wrong_ext", "unreadable", "too_big", "not_workbook", "bad_sig"}
    \/ (src = "self" /\ ~(w.storage.exists /\ w.storage.loadable /\ w.storage.sig))

\* C5: start_imported_session with an upload that fails validation, called while
\* a session is active, raises and leaves session_path, mode, the backing file
\* and the backups directory as they were.
C5_FailedImportLeavesSession ==
    [][ (/\ last'.op = "start_imported_session"
         /\ is_session_active(World)
         /\ FailsUploadValidation(last'.src, World))
        => (/\ last'.raised
            /\ state' = state
            /\ storage' = storage
            /\ backups' = backups) ]_smVars

\* a rejected upload while a session was active
C5_Witness ==
    /\ last.op = "start_imported_session" /\ last.src = "bad_sig"
    /\ last.active /\ last.raised
    /\ is_session_active(World)

\* C6: with a session active, an end_session_and_archive that returns has moved
\* the backing file into backups under User_Data_Fresh_<N> or
\* User_Data_Imported_<N> by mode, returned that name, and reset the state; no
\* file is at the storage path and no session is active afterwards.
C6_EndArchivesAndResets ==
    [][ (/\ last'.op = "end_session_and_archive"
         /\ is_session_active(World)
         /\ ~last'.raised)
        => (/\ \/ (state.mode = "FRESH" /\ last'.ret.label = "Fresh")
                \/ (state.mode = "IMPORTED" /\ last'.ret.label = "Imported")
            /\ last'.ret.n >= 1
            /\ last'.ret \notin DOMAIN backups
            /\ DOMAIN backups' = DOMAIN backups \cup {last'.ret}
            /\ backups'[last'.ret] = storage
            /\ state' = SessionState
            /\ ~storage'.exists
            /\ ~(state'.session_path # None /\ storage'.exists)) ]_smVars

\* an imported session was ended and archived
C6_Witness ==
    /\ last.op = "end_session_and_archive" /\ last.active /\ ~last.raised
    /\ last.ret.label = "Imported" /\ last.ret \in DOMAIN backups
    /\ state = SessionState /\ ~storage.exists

\* C7: with no session active, end_session_and_archive returns no path and
\* leaves the session state, the storage file and the backups as they were.
C7_EndWithoutSessionIsNoOp ==
    [][ (/\ last'.op = "end_session_and_archive"
         /\ ~is_session_active(World))
        => (/\ ~last'.raised
            /\ last'.ret = NoName
            /\ state' = state
            /\ storage' = storage
            /\ backups' = backups
            /\ copies' = copies) ]_smVars

\* end was called with no session, a stale file lying at the storage path
C7_Witness ==
    /\ last.op = "end_session_and_archive" /\ ~last.active
    /\ last.ret = NoName /\ storage.exists /\ state = SessionState

SameLabel(bk, label) == {x \in DOMAIN bk : x.label = label}

\* C8: every archive gets the name User_Data_L_<N+1>, N the highest suffix among
\* the existing backups of label L (0 if none): above every existing suffix of
\* L, directly above the highest, whatever backups of other labels exist.
C8_NextNameIsHighestPlusOne ==
    [][ \A nm \in DOMAIN backups' \ DOMAIN backups :
            /\ \A x \in SameLabel(backups, nm.label) : x.n < nm.n
            /\ \/ (nm.n = 1 /\ SameLabel(backups, nm.label) = {})
               \/ BackupName(nm.label, nm.n - 1) \in DOMAIN backups ]_smVars

\* backups _1 and _3 of Fresh existed, _2 did not, and the archive was named _4
C8_Witness ==
    /\ last.op = "end_session_and_archive" /\ last.ret = BackupName("Fresh", 4)
    /\ {BackupName("Fresh", 1), BackupName("Fresh", 3), BackupName("Fresh", 4)} \subseteq DOMAIN backups
    /\ BackupName("Fresh", 2) \notin DOMAIN backups

\* C9: read_all, write_all, save and save_backup each re-verify the marker of
\* the backing file: when it no longer matches, the call raises and writes
\* nothing, neither the backing file nor a backup copy.
C9_FileOpsVerifySignature ==
    [][ (/\ last'.op \in FileOps
         /\ is_session_active(World)
         /\ storage.loadable /\ ~storage.sig)
        => (/\ last'.raised
            /\ ~last'.saved
            /\ storage' = storage
            /\ copies' = copies) ]_smVars

\* C10: a start that begins with a file at the storage path either moves that
\* file, content unchanged, to a new name in backups or leaves it in place
\* untouched; when the start returns, the file is in backups.
C10_StartKeepsStaleFile ==
    [][ (/\ last'.op \in StartOps
         /\ storage.exists)
        => LET archived == \E nm \in DOMAIN backups' \ DOMAIN backups : backups'[nm] = storage
           IN  /\ (archived \/ storage' = storage)
               /\ (~last'.raised => archived) ]_smVars

\* a start returned after it found a file of the user's at the storage path
C10_Witness ==
    /\ last.op \in StartOps /\ last.stale /\ ~last.raised
    /\ is_session_active(World)
    /\ \E nm \in DOMAIN backups : nm.label = "Stale" /\ backups[nm].data = "user"

\* C20: handle discipline: after start_fresh_session, start_imported_session,
\* read_all, write_all, save or save_backup returns, normally or by raising,
\* the adapter handle the operation opened is closed.
C20_HandlesClosedAfterEveryCall ==
    (last # <<>> /\ last.op \in StartOps \cup FileOps) => ~last.open

(***************************************************************************)
(* Adapter lifecycle: properties                                            *)
(***************************************************************************)
\* the template prepare_fresh_session is given passes validate_fresh_session_paths
\* and is not the session file itself
UsableTemplate(tpl) == fs[tpl].exists /\ IsXlsx(tpl) /\ tpl # UserDataPath

MonthNumberOf(name) ==
    CHOOSE i \in 1..12 : name \in {months_in_order[i], months_title[i], months_lower[i]}
                            \/ (i = 2 /\ name = " february ")

\* the Gregorian calendar: a leap year is divisible by 4 and not by 100, or by
\* 400; months 4, 6, 9 and 11 have 30 days
CalendarDays(n, y) ==
    IF n = 2
    THEN (IF (y % 4 = 0 /\ y % 100 # 0) \/ y % 400 = 0 THEN 29 ELSE 28)
    ELSE 30 + ((n + (n \div 8)) % 2)

\* C22: get_days_in_month(month, year) returns the calendar day count for every
\* month name, in any letter case, and every year in 1900..2100: february has 29
\* days exactly in the leap years (2000 and 2024 yes, 1900 no), the other months
\* their fixed 30 or 31.
C22_DaysInMonthIsCalendar ==
    (pf # <<>> /\ pf.out # <<>> /\ pf.month \in MonthSpellings)
    => /\ ~pf.out.raised
       /\ pf.out.ret = CalendarDays(MonthNumberOf(pf.month), pf.year)
       /\ (MonthNumberOf(pf.month) = 2 /\ pf.year \in {2000, 2024}) => pf.out.ret = 29
       /\ (MonthNumberOf(pf.month) = 2 /\ pf.year = 1900) => pf.out.ret = 28

\* February 1900, spelled in title case, was given 28 days
C22_Witness ==
    /\ pf # <<>> /\ pf.out # <<>>
    /\ pf.month = "February" /\ pf.year = 1900
    /\ pf.out = [raised |-> FALSE, ret |-> 28]

(***************************************************************************)
(* Session orchestrator: archives                                           *)
(***************************************************************************)
\* the template is one prepare_fresh_session accepts
ValidTemplate == template.exists /\ template.loadable /\ template.sig

\* C23: archive failure never blocks a start.  When start_fresh_session or
\* start_imported_session finds a stale backing file, and the template and the
\* upload are valid, the start succeeds whatever happens to the archive step:
\* the stale file is in the backups directory under a new name and the new
\* session is active.
C23_ArchiveFailureNeverBlocksStart ==
    [][ ( /\ last'.op \in StartOps
          /\ last'.stale
          /\ ValidTemplate
          /\ last'.op = "start_imported_session" => last'.src = "good" )
        => /\ ~last'.raised
           /\ \E nm \in DOMAIN backups' \ DOMAIN backups : backups'[nm] = storage
           /\ state'.session_path # None /\ storage'.exists ]_vars

(***************************************************************************)
(* Adapter grid: the whole year                                             *)
(***************************************************************************)
\* every (month, day, slot) of a year, and the worksheet row of one
YearSlots(year) ==
    {t \in MonthKeys \X (1..31) \X {0, 1} : t[2] <= get_days_in_month(t[1], year)}
RowOf(t) == row_for_day(MONTH_ANCHOR_ROW[t[1]], t[2], t[3])

\* rows that hold the month names, the signature, the income and the year
FixedRows ==
    {MONTH_ANCHOR_ROW[m] : m \in MonthKeys}
        \cup {TEMPLATE_MARKER_CELL[1], CURRENT_INCOME_CELL[1], YEAR_CELL[1]}

\* slots on both sides of the month boundaries and of the leap day
Probes ==
    { <<"JANUARY", 1, 0>>, <<"JANUARY", 1, 1>>, <<"JANUARY", 2, 0>>, <<"JANUARY", 31, 0>>,
      <<"JANUARY", 31, 1>>, <<"FEBRUARY", 1, 0>>, <<"FEBRUARY", 1, 1>>, <<"FEBRUARY", 28, 1>>,
      <<"FEBRUARY", 29, 0>>, <<"FEBRUARY", 29, 1>>, <<"MARCH", 1, 0>>, <<"DECEMBER", 31, 1>> }

\* the row the last call wrote, 0 when it raised
WrittenRow ==
    IF glast.raised THEN 0
    ELSE row_for_day(MONTH_ANCHOR_ROW[MonthKey(glast.month)], glast.day, glast.slot)

\* the targets of a year map to pairwise different rows, none of them a fixed row
DisjointLayout(year) ==
    /\ Cardinality({RowOf(t) : t \in YearSlots(year)}) = Cardinality(YearSlots(year))
    /\ {RowOf(t) : t \in YearSlots(year)} \cap FixedRows = {}

\* C24: slots are independent across the whole year.  In the workbook's year,
\* leap or not, the (month, day, slot) targets map to pairwise different rows,
\* none of them a month anchor row or the row of the year, income or signature
\* cell (the year of a workbook does not change under write_day_entry, so the
\* layout is examined at the first write); a write_day_entry changes no cell
\* outside the row of its target, and the value read at every other slot is
\* what it was.
C24_SlotsIndependent ==
    [][ glast'.op = "write_day_entry" =>
          /\ glast.op = "init" => DisjointLayout(get_year(ws))
          /\ \A c \in DOMAIN ws \cup DOMAIN ws' :
                c[1] # WrittenRow' => CellValue(ws', c[1], c[2]) = CellValue(ws, c[1], c[2])
          /\ \A t \in Probes :
                RowOf(t) # WrittenRow'
                    => SlotValue(ws', t[1], t[2], t[3]) = SlotValue(ws, t[1], t[2], t[3]) ]_vars

\* a record was written to slot 1 of February 1 while slot 1 of January 31, the
\* last row of the block above, holds a record
C24_Witness ==
    /\ glast.op = "write_day_entry" /\ ~glast.raised /\ glast.tx.some
    /\ MonthKey(glast.month) = "FEBRUARY" /\ glast.day = 1 /\ glast.slot = 1
    /\ SlotValue(ws, "JANUARY", 31, 1).some
    /\ SlotValue(ws, "FEBRUARY", 1, 1).some

(***************************************************************************)
(* Adapter on a template copy: properties                                   *)
(***************************************************************************)
\* C25: a record is only ever stored under its own calendar day: whatever
\* successful writes came before, every record read_month returns under day d
\* has a date whose day-of-month is d.
C25_RecordsUnderTheirOwnDay ==
    (glast.op = "read_month" /\ ~glast.raised)
    => LET month == read_month(ws, glast.month) IN
       \A d \in DOMAIN month : \A i \in 1..2 :
           month[d][i].some => month[d][i].date.d = d

\* number of months, from January on, whose round trip is computed
RoundTripMonths == 2

\* the dict read_all returns, as the items write_all iterates over: the months
\* in template order, the days of each in ascending order
AsDays(month) == [d \in DOMAIN month |-> Day(d, month[d])]
AsItems(all, n) == [i \in 1..n |-> Month(months_in_order[i], AsDays(all[months_in_order[i]]))]

\* C26: whole-year round trip.  On a workbook reached from a blank template by
\* write_day_entry, write_all and set_year calls, write_all(read_all()) does not
\* raise (write_all takes the months in order, so it has not raised by the end
\* of the first months) and what was read of those months reads the same after.
C26_WriteAllOfReadAll ==
    (glast.op = "read_all" /\ ~glast.raised)
    => LET out == loader_write_all(ws, AsItems(loader_read_all(ws), RoundTripMonths), 1) IN
       /\ ~out.raised
       /\ \A i \in 1..RoundTripMonths :
             read_month(out.ws, months_in_order[i]) = read_month(ws, months_in_order[i])

\* C27: a failed open leaves the adapter as it was: when open(path) raises, the
\* adapter's workbook handle and its bound path are what they were before the
\* call.
C27_FailedOpenLeavesAdapter ==
    [][ (glast'.op = "open" /\ glast'.raised) => loader' = loader ]_vars

(***************************************************************************)
(* Batches: properties                                                      *)
(***************************************************************************)
\* C28: batch writes are all-or-nothing on disk: when SessionManager.write_all
\* raises, or the dialog's Save fails, because an entry is rejected, the
\* session file is cell for cell what it was before the call.
C28_RejectedBatchLeavesFile ==
    [][ (glast'.op \in {"write_all", "on_save_clicked"} /\ glast'.raised) => disk' = disk ]_vars

\* write_all raised at an entry after it had written an earlier one in memory
C28_Witness ==
    /\ glast.op = "write_all" /\ glast.raised
    /\ sheet_verify_template(disk)
    /\ ~SameCells(loader_write_all(disk, glast.arg, 1).ws, disk)

\* C30: queued edits are always savable: with a working set that is not empty,
\* Save writes every queued entry to the session file (each slot then reads as
\* the entry queued for it) and empties the working set.
C30_QueuedEditsAreSavable ==
    [][ glast'.op = "on_save_clicked" =>
          /\ ~glast'.raised
          /\ working_set' = <<>>
          /\ \A k \in DOMAIN working_set :
                SlotValue(disk', k[1], k[2], k[3]) = working_set[k] ]_vars

(***************************************************************************)
(* Session orchestrator: archives are kept                                  *)
(***************************************************************************)
\* the labels archive names are made with (session_manager.py:60, 76, 134)
ArchiveLabels == {"Stale", "Fresh", "Imported", "Prev"}

\* C29: archives are never overwritten: under any sequence of session calls the
\* name unique_backup_name chooses is not the name of a file already in the
\* backups directory, and every file in backups stays there with its content.
C29_ArchivesNeverOverwritten ==
    [][ /\ \A label \in ArchiveLabels : unique_backup_name(backups, label) \notin DOMAIN backups
        /\ \A nm \in DOMAIN backups : nm \in DOMAIN backups' /\ backups'[nm] = backups[nm] ]_vars

\* a start archived the stale file as Stale_3 next to the earlier Stale_2
C29_Witness ==
    /\ last.op \in StartOps /\ last.stale /\ ~last.raised
    /\ BackupName("Stale", 3) \in DOMAIN backups
    /\ BackupName("Stale", 2) \in DOMAIN backups
    /\ backups[BackupName("Stale", 3)].data = "user"

====
